---------------------------- MODULE ProjectState -----------------------------
(***************************************************************************)
(* The pure part of tools/repo_knowledge: the next project.yaml, its       *)
(* STATUS.md, the events that record the change, and the report derived    *)
(* from a CI run, as functions of what Git and .repo hold (core.py,        *)
(* ci_evidence.py).                                                        *)
(*                                                                         *)
(* A commit is its number on the branch.  Of its tree the generated files  *)
(* are kept apart from the rest, the source, and of its message whether it *)
(* begins with "chore(repo-knowledge):".  A run identifier stands for run  *)
(* id and attempt, and for the descriptive fields that come with them.     *)
(***************************************************************************)
EXTENDS Integers, Sequences, FiniteSetsExt

CONSTANTS
    NoRun,      \* no --build-run-id
    NoName,     \* no repository given, inferred or recorded
    NoStatus,   \* nothing reported for the build or the test
    BadTime,    \* a timestamp the schema rejects
    Tags        \* the repository's tags

NoCommit == 0
NoTime == -1

CommittedAt(k) == k

StatusValues == {"passed", "failed", "cancelled", "skipped", "timed_out", "unknown"}

ASSUME ProjectStateAssumption == BadTime \in Nat /\ NoStatus \notin StatusValues

UnknownBlock ==
    [status |-> "unknown", run |-> NoRun, commit |-> NoCommit, at |-> NoTime]

NoBuild == [commit |-> NoCommit, at |-> NoTime, run |-> NoRun]

------------------------------------------------------------------------------
(* Phases: completion by a tag, or by a declared status whose evidence     *)
(* exists and whose commit looks like one.                                 *)
IsPhaseCompleted(p) ==
    \/ p.tag \in Tags
    \/ p.status = "completed" /\ p.evidence # "missing" /\ p.commit # "malformed"

NotConfigured ==
    [source |-> "not_configured", completed |-> <<>>, active |-> "", next |-> "",
     blocked |-> <<>>]

Names(phases) == [i \in DOMAIN phases |-> phases[i].name]

ComputePhases(declared) ==
    LET open == {i \in DOMAIN declared :
                   declared[i].name # "" /\ ~IsPhaseCompleted(declared[i])}
        later == {j \in DOMAIN declared :
                    j > Min(open) /\ ~IsPhaseCompleted(declared[j])}
        Completed(p) == p.name # "" /\ IsPhaseCompleted(p)
        Blocked(p) == p.name # "" /\ p.status = "blocked" /\ ~IsPhaseCompleted(p)
    IN  IF declared = <<>> THEN NotConfigured
        ELSE [source |-> ".repo/phases.yaml",
              completed |-> Names(SelectSeq(declared, Completed)),
              active |-> IF open = {} THEN "" ELSE declared[Min(open)].name,
              next |-> IF open = {} THEN ""
                       ELSE IF later = {} THEN "" ELSE declared[Min(later)].name,
              blocked |-> Names(SelectSeq(declared, Blocked))]

------------------------------------------------------------------------------
(* project.yaml that does not exist.                                       *)
NoState ==
    [repository |-> NoName, head |-> NoCommit, generatedAt |-> NoTime,
     phases |-> NotConfigured, build |-> UnknownBlock, test |-> UnknownBlock,
     lastSuccessfulBuild |-> NoBuild, lastFailedBuild |-> NoBuild,
     sync |-> "none"]

(* git diff compares two trees, whatever the commits between them did: it  *)
(* names generated files only when the source is the same.                 *)
SameSource(commits, k) == commits[k].source = commits[Len(commits)].source

(* A state-publication commit above commit k: the diff names something, it *)
(* is all generated, and the tip's message says so.                        *)
OnlyPublished(commits, k) ==
    LET tip == commits[Len(commits)] IN
    SameSource(commits, k) /\ commits[k].generated # tip.generated /\ tip.chore

(* Mutant: CI results of an outdated source are accepted.                  *)
FreshSourceAny(commits, source, diffed) == source <= Len(commits)

(* "new source changes exist after this CI run; refusing stale publication" *)
(* A diff that fails reads as one without changes (run_git), and passes.   *)
FreshSource(commits, source, diffed) ==
    source # NoCommit =>
        source <= Len(commits) /\ (diffed => SameSource(commits, source))

(* A publication commit above the recorded source is not a new head, when  *)
(* the diff that shows it does not fail.                                   *)
HeadOf(commits, existing, source, diffed) ==
    IF source # NoCommit THEN source
    ELSE IF existing.head # NoCommit /\ diffed /\ OnlyPublished(commits, existing.head)
         THEN existing.head
         ELSE Len(commits)

SameResult(block, status, report, head) ==
    block.status = status /\ block.run = report.run /\ block.commit = head

(* "same result identity has conflicting evidence timestamp"               *)
Conflicting(block, status, report, head) ==
    /\ status # NoStatus
    /\ SameResult(block, status, report, head)
    /\ report.at \notin {NoTime, block.at}

(* Nothing reported keeps the block, so does the same result again; a new  *)
(* one is dated by CI, by this observation, or by the commit.              *)
RunBlock(status, report, existing, head, now) ==
    IF status = NoStatus \/ SameResult(existing, status, report, head)
    THEN existing
    ELSE [status |-> status, run |-> report.run, commit |-> head,
          at |-> IF report.at # NoTime THEN report.at
                 ELSE IF report.run # NoRun THEN now ELSE CommittedAt(head)]

LastSuccessfulBuild(existing, report, build) ==
    IF report.build = "passed"
    THEN [commit |-> build.commit, at |-> build.at, run |-> report.run]
    ELSE existing.lastSuccessfulBuild

LastFailedBuild(existing, report, build) ==
    IF report.build \in {"failed", "timed_out"}
    THEN [commit |-> build.commit, at |-> build.at, run |-> report.run]
    ELSE existing.lastFailedBuild

(* build_project_state, once its checks are passed and its head is known.  *)
BuildProjectState(head, existing, report, repository, declared, now) ==
    LET build == RunBlock(report.build, report, existing.build, head, now)
        test == RunBlock(report.test, report, existing.test, head, now)
    IN  [repository |-> repository, head |-> head,
         generatedAt |-> Max({CommittedAt(head), build.at, test.at}),
         phases |-> ComputePhases(declared), build |-> build, test |-> test,
         lastSuccessfulBuild |-> LastSuccessfulBuild(existing, report, build),
         lastFailedBuild |-> LastFailedBuild(existing, report, build),
         sync |-> "ok"]

(* STATUS.md shows less than project.yaml: no commits or times of the      *)
(* blocks, no runs of the last builds.                                     *)
RenderStatus(state) ==
    [repository |-> state.repository, head |-> state.head,
     generatedAt |-> state.generatedAt, phases |-> state.phases,
     build |-> <<state.build.status, state.build.run>>, test |-> state.test.status,
     lastSuccessful |-> <<state.lastSuccessfulBuild.commit, state.lastSuccessfulBuild.at>>,
     lastFailed |-> <<state.lastFailedBuild.commit, state.lastFailedBuild.at>>,
     sync |-> state.sync]

------------------------------------------------------------------------------
MakeEvent(kind, commit, status, run, at) ==
    [kind |-> kind, commit |-> commit, status |-> status, run |-> run, at |-> at]

(* A CI identity, or one derived from the content without its time.        *)
EventId(e) ==
    IF e.run # NoRun THEN <<e.kind, e.commit, e.run>>
                     ELSE <<e.kind, e.commit, e.status>>

Collides(events, e) == \E p \in events : EventId(p) = EventId(e) /\ p # e

------------------------------------------------------------------------------
(* Mutant: conclusions are taken over as they are.                         *)
CiStatusRaw(conclusion) == conclusion

(* ci_evidence: a cancelled, skipped or absent conclusion is no failure.   *)
CiStatus(conclusion) ==
    CASE conclusion = "success" -> "passed"
      [] conclusion \in {"failure", "timed_out", "action_required", "startup_failure"}
            -> "failed"
      [] OTHER -> "unknown"

(* steps are the conclusions of the steps with the configured test name.   *)
Derive(run) ==
    [build |-> CiStatus(run.conclusion),
     test |-> CiStatus(IF run.steps = <<>> THEN "absent" ELSE run.steps[1]),
     run |-> run.id, at |-> run.at, source |-> run.source]

(* A completed run of the configured workflow on the default branch, with  *)
(* no two steps of the test's name.                                        *)
Usable(run) == run.completed /\ run.trusted /\ Len(run.steps) <= 1
==============================================================================
