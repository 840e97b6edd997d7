-------------------------- MODULE MCRepoKnowledge ----------------------------
(* RepoKnowledge on small instances.                                       *)
EXTENDS RepoKnowledge, TLC

CONSTANTS r1, r2, r3, here, there

WorkerSymmetry == Permutations(Workers)

Command(kind, report) == [kind |-> kind, repository |-> NoName, report |-> report]

(* A local build without a run, and one observed without CI's timestamp.   *)
LocalBuild == [NothingReported EXCEPT !.build = "timed_out"]
Observed == [NothingReported EXCEPT !.build = "passed", !.run = r3]

SmallCommands ==
    {Command("init", NothingReported), Command("sync", NothingReported),
     Command("collect", LocalBuild), Command("collect", Observed),
     [Command("sync", NothingReported) EXCEPT !.repository = there],
     [Command("collect", LocalBuild) EXCEPT !.report.at = BadTime],
     Command("verify", NothingReported)}

Run(id, source, conclusion, steps) ==
    [id |-> id, source |-> source, conclusion |-> conclusion, steps |-> steps,
     at |-> 5, completed |-> TRUE, trusted |-> TRUE]

(* A change, its revert, the bot's publication, and the same publication   *)
(* under another subject.                                                  *)
Commit(source, generated, chore) ==
    [source |-> source, generated |-> generated, chore |-> chore]

First == Commit("a", 0, FALSE)

SmallCommits ==
    {First, Commit("b", 0, FALSE), Commit("a", 1, TRUE), Commit("a", 1, FALSE)}

(* A passing run of the first commit, a failed one of the second whose     *)
(* test step passed, and runs that may not be used.                        *)
SmallRuns ==
    {Run(r1, 1, "success", <<"success">>), Run(r2, 2, "failure", <<"success">>),
     Run(r2, 1, "cancelled", <<>>), Run(r1, 1, "success", <<"success", "failure">>)}

Phase(name, status) ==
    [name |-> name, tag |-> "none", status |-> status, evidence |-> "none",
     commit |-> "none"]

SmallFiles ==
    {<<Phase("p1", "completed"), Phase("p2", "blocked"), Phase("p3", "planned")>>}

(* One writer and one reader are enough for a torn read.                   *)
ReadCommands == {Command("sync", NothingReported), Command("verify", NothingReported)}
==============================================================================
