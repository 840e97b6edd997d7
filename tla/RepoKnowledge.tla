---------------------------- MODULE RepoKnowledge ----------------------------
(***************************************************************************)
(* The repo_knowledge commands run side by side (cli.py): init, collect    *)
(* and sync derive a new .repo under a lock in the Git directory, stage it *)
(* privately and exchange the directories; verify reads without the lock;  *)
(* people commit and edit .repo/phases.yaml at any time; a process may die *)
(* between any two steps.                                                  *)
(***************************************************************************)
EXTENDS ProjectState

CONSTANTS
    Workers,     \* processes
    Nobody,      \* the lock's holder when it is free
    Commands,    \* command lines: see Command
    Commits,     \* commits people and the bot make
    Root,        \* the first one
    CiRuns,      \* completed workflow runs ci_evidence may be pointed at
    Origin,      \* what the origin remote names, or NoName
    PhaseFiles,  \* contents people may give phases.yaml
    Nows,        \* what now_iso() may return
    MaxCommits,  \* length of the history
    MaxCommands  \* commands begun

Kinds == {"init", "collect", "sync", "verify"}

NothingReported ==
    [build |-> NoStatus, test |-> NoStatus, run |-> NoRun, at |-> NoTime,
     source |-> NoCommit]

ASSUME RepoKnowledgeAssumption ==
    /\ Nobody \notin Workers
    /\ \A c \in Commands :
          /\ c.kind \in Kinds
          /\ {c.report.build, c.report.test} \subseteq StatusValues \cup {NoStatus}
          /\ c.report.source \in Nat
          /\ c.kind \in {"init", "verify"} => c.report = NothingReported
    /\ \A run \in CiRuns : run.source \in Nat
    /\ Root \in Commits
    /\ MaxCommits \in Nat \ {0} /\ MaxCommands \in Nat
    /\ Nows \subseteq Nat

VARIABLES
    commits,    \* the branch
    dir,        \* the .repo directory a reader opens
    lock,       \* holder of repo-knowledge.lock
    pc,         \* progress of each process
    cmd,        \* its command
    begun,      \* commands begun so far
    draft,      \* what it derived, staged or read, as a .repo
    edited,     \* history: the last phases.yaml a person saved
    overlapped, \* history: one was saved while a staged copy was published
    blind       \* history: the last collection took a stale result for a
                \* fresh one, as its diff failed

vars == <<commits, dir, lock, pc, cmd, begun, draft, edited, overlapped,
          blind>>

Store == INSTANCE KnowledgeStore WITH store <- dir

Idle == [kind |-> "none", repository |-> NoName, report |-> NothingReported]

Init ==
    /\ commits = <<Root>>
    /\ dir = Store!EmptyStore
    /\ lock = Nobody
    /\ pc = [w \in Workers |-> "idle"]
    /\ cmd = [w \in Workers |-> Idle]
    /\ begun = 0
    /\ draft = [w \in Workers |-> Store!EmptyStore]
    /\ edited = <<>>
    /\ overlapped = FALSE
    /\ blind = FALSE

(* The process ends: the kernel drops its lock and the staging directory   *)
(* is never looked at again.                                               *)
End(w) ==
    /\ pc' = [pc EXCEPT ![w] = "idle"]
    /\ cmd' = [cmd EXCEPT ![w] = Idle]
    /\ draft' = [draft EXCEPT ![w] = Store!EmptyStore]
    /\ lock' = IF lock = w THEN Nobody ELSE lock
    /\ UNCHANGED begun

GoOn(w, next, d) ==
    /\ pc' = [pc EXCEPT ![w] = next]
    /\ draft' = [draft EXCEPT ![w] = d]
    /\ UNCHANGED <<cmd, lock, begun>>

outside == <<commits, edited, overlapped, blind>>

------------------------------------------------------------------------------
Begin(w, c) ==
    /\ pc[w] = "idle"
    /\ begun < MaxCommands
    /\ begun' = begun + 1
    /\ pc' = [pc EXCEPT ![w] = IF c.kind = "verify" THEN "read" ELSE "lock"]
    /\ cmd' = [cmd EXCEPT ![w] = c]
    /\ UNCHANGED <<outside, dir, lock, draft>>

(* ci_evidence.main: sync what a trusted run reports.                      *)
BeginCi(w, run) ==
    /\ dir.state # NoState
    /\ Usable(run)
    /\ run.source <= Len(commits)
    /\ Begin(w, [kind |-> "sync", repository |-> NoName, report |-> Derive(run)])

(* Mutant: the lock is advisory and not asked for.                         *)
AcquireNothing(w) ==
    /\ pc[w] = "lock"
    /\ pc' = [pc EXCEPT ![w] = "derive"]
    /\ UNCHANGED <<outside, dir, lock, cmd, begun, draft>>

(* flock(LOCK_EX) blocks until the file is free.                           *)
Acquire(w) ==
    /\ pc[w] = "lock"
    /\ lock = Nobody
    /\ lock' = w
    /\ pc' = [pc EXCEPT ![w] = "derive"]
    /\ UNCHANGED <<outside, dir, cmd, begun, draft>>

(* _resolve_identity: given, recorded, inferred, in this order; NoName     *)
(* when there is none, or when they disagree.                              *)
Identity(c) ==
    LET recorded == dir.state.repository
        repository == CHOOSE r \in {c.repository, recorded, Origin} :
                        IF c.repository # NoName THEN r = c.repository
                        ELSE IF recorded # NoName THEN r = recorded
                        ELSE r = Origin
        agrees == recorded \in {NoName, repository} /\ Origin \in {NoName, repository}
    IN  IF agrees THEN repository ELSE NoName

When(condition, event) == IF condition THEN {event} ELSE {}

(* The events of a collection; a sync also records the state it reached,   *)
(* under the state's own digest.                                           *)
EventsOf(kind, existing, state, report) ==
    LET Result(k, block) == MakeEvent(k, state.head, block.status, block.run, block.at)
    IN  When(state.head # existing.head,
             MakeEvent("commit", state.head, "completed", NoRun, CommittedAt(state.head)))
        \cup When(report.build # NoStatus, Result("build", state.build))
        \cup When(report.test # NoStatus, Result("test", state.test))
        \cup When(kind = "sync",
                  MakeEvent("sync", state.head, "completed", state, state.generatedAt))

Rejected(w, head, diffed) ==
    LET c == cmd[w] IN
    \/ Identity(c) = NoName
    \/ ~FreshSource(commits, c.report.source, diffed)
    \/ Conflicting(dir.state.build, c.report.build, c.report, head)
    \/ Conflicting(dir.state.test, c.report.test, c.report, head)

(* init derives a first state and no events, unless there is one already.  *)
DeriveInit(w) ==
    LET head == HeadOf(commits, NoState, NoCommit, TRUE) IN
    /\ pc[w] = "derive" /\ cmd[w].kind = "init"
    /\ IF dir.state # NoState \/ Rejected(w, head, TRUE)
       THEN End(w)
       ELSE GoOn(w, "stage",
                 [Store!EmptyStore EXCEPT
                    !.state = [BuildProjectState(head, NoState, NothingReported,
                                                 Identity(cmd[w]), dir.phases, NoTime)
                                 EXCEPT !.sync = "pending"]])
    /\ UNCHANGED <<outside, dir>>

(* _collect up to the transaction; any exception ends the command.  diffed *)
(* says whether git diff worked.                                           *)
Collect(w, now, diffed) ==
    LET c == cmd[w]
        head == HeadOf(commits, dir.state, c.report.source, diffed)
        state == BuildProjectState(head, dir.state, c.report, Identity(c),
                                   dir.phases, now)
    IN  /\ pc[w] = "derive" /\ c.kind \in {"collect", "sync"}
        /\ IF Rejected(w, head, diffed)
           THEN End(w) /\ UNCHANGED blind
           ELSE /\ GoOn(w, "stage",
                        [Store!EmptyStore EXCEPT
                           !.state = state,
                           !.events = EventsOf(c.kind, dir.state, state, c.report)])
                /\ blind' = ~FreshSource(commits, c.report.source, TRUE)
        /\ UNCHANGED <<commits, edited, overlapped, dir>>

(* _validate_candidate: every date-time of the candidate is one.           *)
ValidCandidate(d) ==
    /\ BadTime \notin {d.state.build.at, d.state.test.at, d.state.generatedAt}
    /\ \A e \in d.events : e.at # BadTime

(* Mutant: a new directory without the files people keep there.            *)
StagedFresh(d) ==
    [phases |-> <<>>, state |-> d.state, status |-> RenderStatus(d.state),
     events |-> dir.events \cup d.events]

(* A copy of .repo with the new state, its rendering and the new events.   *)
Staged(d) ==
    [phases |-> dir.phases, state |-> d.state, status |-> RenderStatus(d.state),
     events |-> dir.events \cup d.events]

(* _transaction: nothing is staged for an invalid candidate or a           *)
(* conflicting event.                                                      *)
Transaction(w) ==
    LET d == draft[w] IN
    /\ pc[w] = "stage"
    /\ IF ~ValidCandidate(d) \/ \E e \in d.events : Collides(dir.events, e)
       THEN End(w)
       ELSE GoOn(w, "publish", Staged(d))
    /\ UNCHANGED <<outside, dir>>

(* The exchange is one system call.  It is left out when the copy is equal *)
(* to what is there, and exchanging equal directories would change nothing.*)
Publish(w) ==
    /\ pc[w] = "publish"
    /\ dir' = draft[w]
    /\ End(w)
    /\ UNCHANGED outside

(* verify loads project.yaml, then opens STATUS.md by its path.            *)
VerifyRead(w) ==
    /\ pc[w] = "read"
    /\ IF dir.state = NoState THEN End(w) ELSE GoOn(w, "compare", dir)
    /\ UNCHANGED <<outside, dir>>

VerifyCompare(w) ==
    /\ pc[w] = "compare"
    /\ IF dir.status = RenderStatus(draft[w].state)
       THEN End(w) ELSE GoOn(w, "finding", draft[w])
    /\ UNCHANGED <<outside, dir>>

(* A command fails, its exchange is refused, or its process is killed;     *)
(* or verify has printed its finding.                                      *)
Stop(w) ==
    /\ pc[w] # "idle"
    /\ End(w)
    /\ UNCHANGED <<outside, dir>>

NewCommit(commit) ==
    /\ Len(commits) < MaxCommits
    /\ commits' = Append(commits, commit)
    /\ UNCHANGED <<dir, lock, pc, cmd, begun, draft, edited, overlapped, blind>>

EditPhases(file) ==
    /\ file # dir.phases
    /\ dir' = [dir EXCEPT !.phases = file]
    /\ edited' = file
    /\ overlapped' = (overlapped \/ \E w \in Workers : pc[w] = "publish")
    /\ UNCHANGED <<commits, lock, pc, cmd, begun, draft, blind>>

Step(w) ==
    \/ Acquire(w)
    \/ DeriveInit(w)
    \/ \E now \in Nows, diffed \in BOOLEAN : Collect(w, now, diffed)
    \/ Transaction(w)
    \/ Publish(w)
    \/ VerifyRead(w)
    \/ VerifyCompare(w)

Next ==
    \/ \E w \in Workers :
          \/ \E c \in Commands : Begin(w, c)
          \/ \E run \in CiRuns : BeginCi(w, run)
          \/ Step(w)
          \/ Stop(w)
    \/ \E commit \in Commits : NewCommit(commit)
    \/ \E file \in PhaseFiles : EditPhases(file)

Spec == Init /\ [][Next]_vars

------------------------------------------------------------------------------
(* Every variable has its type; whatever CI concludes, a status is one of  *)
(* the schema's.                                                           *)
TypeOK ==
    /\ pc \in [Workers -> {"idle", "lock", "derive", "stage", "publish",
                           "read", "compare", "finding"}]
    /\ lock \in Workers \cup {Nobody}
    /\ begun \in 0 .. MaxCommands
    /\ dir.state.build.status \in StatusValues
    /\ dir.state.test.status \in StatusValues
    /\ dir.state.head \in 0 .. Len(commits)

(* The directory implements the store (README, "Retry and publication      *)
(* contract"): every change is a whole consistent publication or a         *)
(* person's edit; no command overwrites what another one published         *)
(* meanwhile, loses an event, gives one identifier two contents, forgets a *)
(* build or renames the project, and a process that dies changes nothing.  *)
ImplementsStore == Store!StoreSpec

(* "Human .repo/phases.yaml changes and any source changes must remain     *)
(* visible" (build_project_state): the source of the head that is recorded *)
(* is that of a commit no older than the head recorded before, although    *)
(* CI results come late, a change may be reverted and commits land between *)
(* the staleness check and the publication.  What breaks it is a git diff  *)
(* that fails and lets a stale result through.                             *)
NoSourceHidden ==
    [][dir'.state.head # dir.state.head =>
          \/ blind
          \/ \E k \in DOMAIN commits :
                /\ k >= dir.state.head
                /\ commits[k].source = commits[dir'.state.head].source]_vars

(* "Optional human phases survive" every command, except an edit saved     *)
(* while a copy made before it waits for its exchange.                     *)
PhasesKeptUnlessOverlapped == overlapped \/ dir.phases = edited

(* "An interrupted reader sees a complete old or complete new directory,   *)
(* never a partial batch" (_publish): verify never finds a STATUS.md that  *)
(* differs from the rendering of the state it read.                        *)
VerifyNeverTorn == \A w \in Workers : pc[w] # "finding"
==============================================================================
