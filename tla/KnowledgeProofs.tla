--------------------------- MODULE KnowledgeProofs ---------------------------
(***************************************************************************)
(* Proofs about the repo_knowledge commands, for any number of processes,  *)
(* commands, CI runs, commits and edits of phases.yaml.                    *)
(*                                                                         *)
(* What a command publishes was derived from the directory of an earlier   *)
(* moment.  The invariant says that it still follows from the one that is  *)
(* there: the lock keeps every other command's publication out, and what   *)
(* the lock does not keep out, commits and edits, cannot spoil it.         *)
(***************************************************************************)
EXTENDS RepoKnowledge, TLAPS

Steps == {"idle", "lock", "derive", "stage", "publish", "read", "compare", "finding"}

Types ==
    /\ commits \in Seq(Commits) /\ Len(commits) > 0
    /\ pc \in [Workers -> Steps] /\ DOMAIN cmd = Workers /\ DOMAIN draft = Workers
    /\ lock \in Workers \cup {Nobody}
    /\ begun \in 0 .. MaxCommands

(* A .repo has these four parts and no other.                              *)
Whole(d) ==
    d = [phases |-> d.phases, state |-> d.state, status |-> d.status, events |-> d.events]

StateOK(state) ==
    /\ state.build.status \in StatusValues /\ state.test.status \in StatusValues
    /\ state.head \in 0 .. Len(commits)

(* Every build that the state reports is in the history.                   *)
Explained(events, state) ==
    /\ Store!Recorded(events, "build", {state.build.status}, state.build)
    /\ Store!Recorded(events, "test", {state.test.status}, state.test)
    /\ Store!Recorded(events, "build", {"passed"}, state.lastSuccessfulBuild)
    /\ Store!Recorded(events, "build", {"failed", "timed_out"}, state.lastFailedBuild)

DirOK ==
    /\ Whole(dir) /\ StateOK(dir.state)
    /\ Explained(dir.events, dir.state) /\ Store!OneContentPerId(dir.events)

(* The state, with the events, may be published over the directory.        *)
Follows(state, events) ==
    /\ state # NoState /\ StateOK(state)
    /\ dir.state.repository \in {NoName, state.repository}
    /\ Store!Remembered(dir.state.lastSuccessfulBuild, state.lastSuccessfulBuild, state.build)
    /\ Store!Remembered(dir.state.lastFailedBuild, state.lastFailedBuild, state.build)
    /\ Explained(dir.events \cup events, state)

(* flock: at most one command is past it.                                  *)
Locked(w) == pc[w] \in {"derive", "stage", "publish"} => lock = w

ReportOK(c) ==
    /\ {c.report.build, c.report.test} \subseteq StatusValues \cup {NoStatus}
    /\ c.report.source \in Nat
    /\ c.kind = "init" => c.report = NothingReported

CmdOK(w) == pc[w] \in {"lock", "derive"} => ReportOK(cmd[w])

DraftOK(w) ==
    LET d == draft[w] IN
    /\ pc[w] \in {"stage", "publish"} =>
          /\ Whole(d) /\ Follows(d.state, d.events) /\ Store!OneContentPerId(d.events)
    /\ pc[w] = "publish" =>
          d.status = RenderStatus(d.state) /\ dir.events \subseteq d.events

(* The inductive invariant.                                                *)
KnowledgeInv ==
    /\ Types /\ DirOK
    /\ \A w \in Workers : Locked(w) /\ CmdOK(w) /\ DraftOK(w)

(* The phases people saved are in the directory and in every staged copy.  *)
PhasesOK ==
    \/ overlapped
    \/ /\ dir.phases = edited
       /\ \A w \in Workers : pc[w] = "publish" => draft[w].phases = edited

------------------------------------------------------------------------------
(* What is derived.                                                        *)

(* Nothing reported keeps a block; a result names itself and the head.     *)
LEMMA BlockOfReport ==
    ASSUME NEW status, NEW report, NEW existing, NEW head, NEW now
    PROVE  LET b == RunBlock(status, report, existing, head, now) IN
           /\ status = NoStatus => b = existing
           /\ status # NoStatus =>
                 b.status = status /\ b.run = report.run /\ b.commit = head
  BY DEF RunBlock, SameResult

(* The head that is recorded is a commit of the branch.                    *)
LEMMA HeadOnBranch ==
    ASSUME Types, DirOK, NEW source \in Nat, NEW diffed, FreshSource(commits, source, diffed)
    PROVE  HeadOf(commits, dir.state, source, diffed) \in 1 .. Len(commits)
  <1>1. PICK n \in Nat, h \in Nat : n = Len(commits) /\ h = dir.state.head /\ h <= n /\ n > 0
    BY DEF Types, DirOK, StateOK
  <1>2. source # NoCommit => source <= n
    BY <1>1 DEF FreshSource
  <1> QED
    BY <1>1, <1>2 DEF HeadOf, NoCommit

(* build_project_state: with the events of the results it reports, the     *)
(* state may be published over the directory it was derived from.          *)
LEMMA DerivedFollows ==
    ASSUME Types, DirOK, NEW c, ReportOK(c), NEW now, NEW repository, NEW phases,
           NEW state, NEW events, NEW diffed, NEW head,
           FreshSource(commits, c.report.source, diffed),
           head = HeadOf(commits, dir.state, c.report.source, diffed),
           dir.state.repository \in {NoName, repository},
           state = BuildProjectState(head, dir.state, c.report, repository, phases, now),
           c.report.build # NoStatus =>
              MakeEvent("build", state.head, state.build.status, state.build.run,
                        state.build.at) \in events,
           c.report.test # NoStatus =>
              MakeEvent("test", state.head, state.test.status, state.test.run,
                        state.test.at) \in events
    PROVE  Follows(state, events)
  <1>1. PICK report : report = c.report
    OBVIOUS
  <1>3. PICK b : b = RunBlock(report.build, report, dir.state.build, head, now)
    OBVIOUS
  <1>4. PICK t : t = RunBlock(report.test, report, dir.state.test, head, now)
    OBVIOUS
  <1>5. /\ state.head = head /\ state.build = b /\ state.test = t
        /\ state.repository = repository /\ state.sync = "ok"
        /\ state.lastSuccessfulBuild = LastSuccessfulBuild(dir.state, report, b)
        /\ state.lastFailedBuild = LastFailedBuild(dir.state, report, b)
    BY <1>1, <1>3, <1>4 DEF BuildProjectState
  <1>6. /\ report.build = NoStatus => b = dir.state.build
        /\ report.build # NoStatus =>
              b.status = report.build /\ b.run = report.run /\ b.commit = head
    BY <1>3, BlockOfReport
  <1>7. /\ report.test = NoStatus => t = dir.state.test
        /\ report.test # NoStatus =>
              t.status = report.test /\ t.run = report.run /\ t.commit = head
    BY <1>4, BlockOfReport
  <1>8. /\ report.build \in StatusValues \cup {NoStatus}
        /\ report.test \in StatusValues \cup {NoStatus}
        /\ report.source \in Nat
    BY <1>1 DEF ReportOK
  <1>9. head \in 0 .. Len(commits)
    <2>1. head \in 1 .. Len(commits) /\ Len(commits) \in Nat
      BY <1>1, <1>8, HeadOnBranch DEF Types
    <2> QED
      BY <2>1
  <1>10. b.status \in StatusValues /\ t.status \in StatusValues
    BY <1>6, <1>7, <1>8 DEF DirOK, StateOK
  <1>11. StateOK(state)
    BY <1>5, <1>9, <1>10 DEF StateOK
  <1>12. state # NoState
    BY <1>5 DEF NoState
  <1>13. NoStatus \notin {"passed", "failed", "timed_out"}
    BY ProjectStateAssumption DEF StatusValues
  <1>14. /\ \/ state.lastSuccessfulBuild = dir.state.lastSuccessfulBuild
            \/ /\ report.build = "passed"
               /\ state.lastSuccessfulBuild = [commit |-> b.commit, at |-> b.at, run |-> b.run]
         /\ \/ state.lastFailedBuild = dir.state.lastFailedBuild
            \/ /\ report.build \in {"failed", "timed_out"}
               /\ state.lastFailedBuild = [commit |-> b.commit, at |-> b.at, run |-> b.run]
    BY <1>5, <1>6, <1>13 DEF LastSuccessfulBuild, LastFailedBuild
  <1>15. /\ Store!Remembered(dir.state.lastSuccessfulBuild, state.lastSuccessfulBuild, state.build)
         /\ Store!Remembered(dir.state.lastFailedBuild, state.lastFailedBuild, state.build)
    BY <1>5, <1>14 DEF Store!Remembered
  <1>16. Explained(dir.events \cup events, state)
    <2>1. PICK all : all = dir.events \cup events
      OBVIOUS
    <2>2. dir.events \subseteq all
      BY <2>1
    <2>3. /\ report.build # NoStatus =>
                MakeEvent("build", head, b.status, b.run, b.at) \in all
          /\ report.test # NoStatus =>
                MakeEvent("test", head, t.status, t.run, t.at) \in all
      BY <1>1, <1>5, <2>1
    <2>4. Explained(dir.events, dir.state)
      BY DEF DirOK
    <2>5. Store!Recorded(all, "build", {b.status}, b)
      <3>1. CASE report.build = NoStatus
        <4>1. Store!Recorded(dir.events, "build", {b.status}, b)
          BY <1>6, <2>4, <3>1 DEF Explained
        <4> QED
          BY <2>2, <4>1 DEF Store!Recorded
      <3>2. CASE report.build # NoStatus
        BY <1>6, <2>3, <3>2 DEF Store!Recorded, MakeEvent
      <3> QED
        BY <3>1, <3>2
    <2>6. Store!Recorded(all, "test", {t.status}, t)
      <3>1. CASE report.test = NoStatus
        <4>1. Store!Recorded(dir.events, "test", {t.status}, t)
          BY <1>7, <2>4, <3>1 DEF Explained
        <4> QED
          BY <2>2, <4>1 DEF Store!Recorded
      <3>2. CASE report.test # NoStatus
        BY <1>7, <2>3, <3>2 DEF Store!Recorded, MakeEvent
      <3> QED
        BY <3>1, <3>2
    <2>7. Store!Recorded(all, "build", {"passed"}, state.lastSuccessfulBuild)
      <3>1. CASE state.lastSuccessfulBuild = dir.state.lastSuccessfulBuild
        <4>1. Store!Recorded(dir.events, "build", {"passed"}, state.lastSuccessfulBuild)
          BY <2>4, <3>1 DEF Explained
        <4> QED
          BY <2>2, <4>1 DEF Store!Recorded
      <3>2. CASE /\ report.build = "passed"
                 /\ state.lastSuccessfulBuild = [commit |-> b.commit, at |-> b.at, run |-> b.run]
        <4>1. b.commit = head /\ MakeEvent("build", head, "passed", b.run, b.at) \in all
          BY <1>6, <1>13, <2>3, <3>2
        <4> QED
          BY <3>2, <4>1 DEF Store!Recorded, MakeEvent
      <3> QED
        BY <1>14, <3>1, <3>2
    <2>8. Store!Recorded(all, "build", {"failed", "timed_out"}, state.lastFailedBuild)
      <3>1. CASE state.lastFailedBuild = dir.state.lastFailedBuild
        <4>1. Store!Recorded(dir.events, "build", {"failed", "timed_out"}, state.lastFailedBuild)
          BY <2>4, <3>1 DEF Explained
        <4> QED
          BY <2>2, <4>1 DEF Store!Recorded
      <3>2. CASE /\ report.build \in {"failed", "timed_out"}
                 /\ state.lastFailedBuild = [commit |-> b.commit, at |-> b.at, run |-> b.run]
        <4>1. b.commit = head /\ MakeEvent("build", head, report.build, b.run, b.at) \in all
          BY <1>6, <1>13, <2>3, <3>2
        <4> QED
          BY <3>2, <4>1 DEF Store!Recorded, MakeEvent
      <3> QED
        BY <1>14, <3>1, <3>2
    <2> QED
      BY <1>5, <2>1, <2>5, <2>6, <2>7, <2>8 DEF Explained
  <1> QED
    BY <1>5, <1>11, <1>12, <1>15, <1>16 DEF Follows

(* A command's events are of different kinds, so that no two of them share *)
(* an identifier, and they include the results it reports.                 *)
LEMMA EventsOfCommand ==
    ASSUME NEW kind, NEW existing, NEW state, NEW report
    PROVE  LET events == EventsOf(kind, existing, state, report) IN
           /\ Store!OneContentPerId(events)
           /\ report.build # NoStatus =>
                 MakeEvent("build", state.head, state.build.status, state.build.run,
                           state.build.at) \in events
           /\ report.test # NoStatus =>
                 MakeEvent("test", state.head, state.test.status, state.test.run,
                           state.test.at) \in events
  <1>1. PICK events : events = EventsOf(kind, existing, state, report)
    OBVIOUS
  <1>2. \A e \in events :
           \/ e = MakeEvent("commit", state.head, "completed", NoRun, CommittedAt(state.head))
           \/ e = MakeEvent("build", state.head, state.build.status, state.build.run,
                            state.build.at)
           \/ e = MakeEvent("test", state.head, state.test.status, state.test.run,
                            state.test.at)
           \/ e = MakeEvent("sync", state.head, "completed", state, state.generatedAt)
    BY <1>1 DEF EventsOf, When
  <1>3. \A d, e \in events : d.kind = e.kind => d = e
    BY <1>2 DEF MakeEvent
  <1>4. \A d, e : Store!EventId(d) = Store!EventId(e) => d.kind = e.kind
    BY DEF Store!EventId
  <1>5. Store!OneContentPerId(events)
    BY <1>3, <1>4 DEF Store!OneContentPerId
  <1> QED
    BY <1>1, <1>5 DEF EventsOf, When

------------------------------------------------------------------------------
(* What a step leaves in place.                                            *)

OthersKept(w) ==
    \A v \in Workers \ {w} : pc'[v] = pc[v] /\ cmd'[v] = cmd[v] /\ draft'[v] = draft[v]

(* A state that may be published stays so while the directory's state and  *)
(* events do, whatever is committed.                                       *)
LEMMA FollowsKept ==
    ASSUME Types, DirOK, NEW state, NEW events, Follows(state, events),
           dir'.state = dir.state, dir'.events = dir.events,
           Len(commits') \in Nat, Len(commits) <= Len(commits')
    PROVE  Follows(state, events)'
  <1>1. PICK n \in Nat, m \in Nat, g \in Nat :
           /\ n = Len(commits) /\ m = Len(commits') /\ n <= m
           /\ g = state.head /\ g <= n
    BY DEF Types, DirOK, StateOK, Follows
  <1>4. state.head \in 0 .. Len(commits')
    BY <1>1
  <1>5. StateOK(state)'
    BY <1>4 DEF Follows, StateOK
  <1> QED
    BY <1>5 DEF Follows

(* A process ends, or goes on.                                             *)
LEMMA Ended ==
    ASSUME KnowledgeInv, NEW w \in Workers, End(w), commits' = commits
    PROVE  /\ OthersKept(w) /\ Types' /\ pc'[w] = "idle"
           /\ \A v \in Workers \ {w} : lock = v => lock' = v
  <1>1. /\ pc' = [pc EXCEPT ![w] = "idle"] /\ begun' = begun
        /\ cmd' = [cmd EXCEPT ![w] = Idle]
        /\ draft' = [draft EXCEPT ![w] = Store!EmptyStore]
        /\ lock' = IF lock = w THEN Nobody ELSE lock
    BY DEF End
  <1>2. Types'
    BY <1>1 DEF KnowledgeInv, Types, Steps
  <1> QED
    BY <1>1, <1>2 DEF OthersKept, KnowledgeInv, Types

LEMMA GoneOn ==
    ASSUME KnowledgeInv, NEW w \in Workers, NEW next \in Steps, NEW d,
           GoOn(w, next, d), commits' = commits
    PROVE  /\ OthersKept(w) /\ Types' /\ pc'[w] = next /\ draft'[w] = d
           /\ cmd' = cmd /\ lock' = lock
  <1>1. /\ pc' = [pc EXCEPT ![w] = next] /\ begun' = begun
        /\ cmd' = cmd /\ lock' = lock
        /\ draft' = [draft EXCEPT ![w] = d]
    BY DEF GoOn
  <1>2. Types'
    BY <1>1 DEF KnowledgeInv, Types
  <1> QED
    BY <1>1, <1>2 DEF OthersKept, KnowledgeInv, Types

(* A step of one process that leaves the directory and the branch alone.   *)
LEMMA QuietStep ==
    ASSUME KnowledgeInv, NEW w \in Workers, OthersKept(w), Types',
           dir' = dir, commits' = commits,
           \A v \in Workers \ {w} : lock = v => lock' = v,
           Locked(w)', CmdOK(w)', DraftOK(w)'
    PROVE  KnowledgeInv'
  <1>1. DirOK'
    BY DEF KnowledgeInv, DirOK, Whole, StateOK
  <1>2. ASSUME NEW v \in Workers \ {w} PROVE Locked(v)' /\ CmdOK(v)' /\ DraftOK(v)'
    <2>1. Locked(v)' /\ CmdOK(v)'
      BY DEF KnowledgeInv, OthersKept, Locked, CmdOK, ReportOK
    <2>2. DraftOK(v)'
      BY DEF KnowledgeInv, OthersKept, DraftOK, Whole, Follows, StateOK
    <2> QED
      BY <2>1, <2>2
  <1> QED
    BY <1>1, <1>2 DEF KnowledgeInv

LEMMA EndedInv ==
    ASSUME KnowledgeInv, NEW w \in Workers, End(w), dir' = dir, commits' = commits
    PROVE  KnowledgeInv'
  <1>1. /\ OthersKept(w) /\ Types' /\ pc'[w] = "idle"
        /\ \A v \in Workers \ {w} : lock = v => lock' = v
    BY Ended
  <1>2. Locked(w)' /\ CmdOK(w)' /\ DraftOK(w)'
    BY <1>1 DEF Locked, CmdOK, DraftOK
  <1> QED
    BY <1>1, <1>2, QuietStep

------------------------------------------------------------------------------
(* The actions.                                                            *)

LEMMA BeginInv ==
    ASSUME KnowledgeInv, NEW w \in Workers, NEW c, ReportOK(c), Begin(w, c)
    PROVE  KnowledgeInv'
  <1>1. /\ begun < MaxCommands /\ begun' = begun + 1
        /\ pc' = [pc EXCEPT ![w] = IF c.kind = "verify" THEN "read" ELSE "lock"]
        /\ cmd' = [cmd EXCEPT ![w] = c]
        /\ UNCHANGED <<commits, dir, lock, draft>>
    BY DEF Begin, outside
  <1>2. begun' \in 0 .. MaxCommands
    BY <1>1, RepoKnowledgeAssumption DEF KnowledgeInv, Types
  <1>3. OthersKept(w) /\ Types' /\ pc'[w] \in {"read", "lock"} /\ cmd'[w] = c
    BY <1>1, <1>2 DEF KnowledgeInv, Types, Steps, OthersKept
  <1>4. Locked(w)' /\ DraftOK(w)'
    BY <1>3 DEF Locked, DraftOK
  <1>5. CmdOK(w)'
    BY <1>3 DEF CmdOK, ReportOK
  <1> QED
    BY <1>1, <1>3, <1>4, <1>5, QuietStep

LEMMA CommandReport ==
    /\ \A c \in Commands : ReportOK(c)
    /\ \A run \in CiRuns : ReportOK([kind |-> "sync", repository |-> NoName,
                                     report |-> Derive(run)])
  <1>1. \A c \in Commands : ReportOK(c)
    BY RepoKnowledgeAssumption DEF ReportOK
  <1>2. ASSUME NEW run \in CiRuns
        PROVE  ReportOK([kind |-> "sync", repository |-> NoName, report |-> Derive(run)])
    <2>1. \A x : CiStatus(x) \in StatusValues
      BY DEF CiStatus, StatusValues
    <2>2. /\ Derive(run).build \in StatusValues /\ Derive(run).test \in StatusValues
          /\ Derive(run).source \in Nat
      BY <2>1, RepoKnowledgeAssumption DEF Derive
    <2> QED
      BY <2>2 DEF ReportOK
  <1> QED
    BY <1>1, <1>2

LEMMA AcquireInv ==
    ASSUME KnowledgeInv, NEW w \in Workers, Acquire(w)
    PROVE  KnowledgeInv'
  <1>1. /\ pc[w] = "lock" /\ lock = Nobody /\ lock' = w
        /\ pc' = [pc EXCEPT ![w] = "derive"]
        /\ UNCHANGED <<commits, dir, cmd, begun, draft>>
    BY DEF Acquire, outside
  <1>2. OthersKept(w) /\ Types' /\ pc'[w] = "derive"
    BY <1>1 DEF KnowledgeInv, Types, Steps, OthersKept
  <1>3. Locked(w)' /\ DraftOK(w)'
    BY <1>1, <1>2 DEF Locked, DraftOK
  <1>4. CmdOK(w)'
    BY <1>1, <1>2 DEF KnowledgeInv, CmdOK, ReportOK
  <1>5. \A v \in Workers : lock # v
    BY <1>1, RepoKnowledgeAssumption
  <1> QED
    BY <1>1, <1>2, <1>3, <1>4, <1>5, QuietStep

(* A derived state and its events are handed to the transaction.           *)
LEMMA DraftInv ==
    ASSUME KnowledgeInv, NEW w \in Workers, pc[w] = "derive", NEW d,
           GoOn(w, "stage", d), dir' = dir, commits' = commits,
           Whole(d), Follows(d.state, d.events), Store!OneContentPerId(d.events)
    PROVE  KnowledgeInv'
  <1>1. /\ OthersKept(w) /\ Types' /\ pc'[w] = "stage" /\ draft'[w] = d
        /\ cmd' = cmd /\ lock' = lock
    BY GoneOn DEF Steps
  <1>2. Locked(w)' /\ CmdOK(w)'
    BY <1>1 DEF KnowledgeInv, Locked, CmdOK
  <1>3. DraftOK(w)'
    BY <1>1 DEF DraftOK, Whole, Follows, StateOK
  <1> QED
    BY <1>1, <1>2, <1>3, QuietStep

LEMMA EmptyParts ==
    /\ Whole(Store!EmptyStore) /\ Store!EmptyStore.state = NoState
    /\ Store!EmptyStore.events = {} /\ Store!EmptyStore.phases = <<>>
    /\ \A x, y : LET d == [Store!EmptyStore EXCEPT !.state = x, !.events = y] IN
                 Whole(d) /\ d.state = x /\ d.events = y
    /\ \A x : LET d == [Store!EmptyStore EXCEPT !.state = x] IN
              Whole(d) /\ d.state = x /\ d.events = {}
  <1>1. Store!NoState = NoState
    BY DEF Store!NoState, NoState, Store!NotConfigured, NotConfigured, Store!UnknownBlock,
       UnknownBlock, Store!NoBuild, NoBuild, Store!NoCommit, NoCommit, Store!NoTime, NoTime
  <1>2. PICK r : r = Store!RenderStatus(Store!NoState)
    OBVIOUS
  <1>3. Store!EmptyStore = [phases |-> <<>>, state |-> NoState, status |-> r, events |-> {}]
    BY <1>1, <1>2 DEF Store!EmptyStore
  <1>4. /\ Whole(Store!EmptyStore) /\ Store!EmptyStore.state = NoState
        /\ Store!EmptyStore.events = {} /\ Store!EmptyStore.phases = <<>>
    BY <1>3 DEF Whole
  <1>5. ASSUME NEW x, NEW y
        PROVE  LET d == [Store!EmptyStore EXCEPT !.state = x, !.events = y] IN
               Whole(d) /\ d.state = x /\ d.events = y
    <2>1. PICK d : d = [Store!EmptyStore EXCEPT !.state = x, !.events = y]
      OBVIOUS
    <2>2. /\ d = [k \in DOMAIN d |-> d[k]] /\ DOMAIN d = {"phases", "state", "status", "events"}
          /\ d.state = x /\ d.events = y
      BY <1>3, <2>1
    <2>3. Whole(d)
      BY <2>2 DEF Whole
    <2> QED
      BY <2>1, <2>2, <2>3
  <1>6. ASSUME NEW x
        PROVE  LET d == [Store!EmptyStore EXCEPT !.state = x] IN
               Whole(d) /\ d.state = x /\ d.events = {}
    BY <1>3 DEF Whole
  <1> QED
    BY <1>4, <1>5, <1>6

(* What a command that is not rejected may rely on.                        *)
LEMMA NotRejected ==
    ASSUME NEW w \in Workers, NEW head, NEW diffed, ~Rejected(w, head, diffed)
    PROVE  /\ FreshSource(commits, cmd[w].report.source, diffed)
           /\ dir.state.repository \in {NoName, Identity(cmd[w])}
  <1>1. Identity(cmd[w]) # NoName /\ FreshSource(commits, cmd[w].report.source, diffed)
    BY DEF Rejected
  <1> QED
    BY <1>1 DEF Identity

LEMMA DeriveInitInv ==
    ASSUME KnowledgeInv, NEW w \in Workers, DeriveInit(w)
    PROVE  KnowledgeInv'
  <1>1. /\ pc[w] = "derive" /\ cmd[w].kind = "init" /\ dir' = dir /\ commits' = commits
    BY DEF DeriveInit, outside
  <1>2. CASE End(w)
    BY <1>1, <1>2, EndedInv
  <1>0. PICK head : head = HeadOf(commits, NoState, NoCommit, TRUE)
    OBVIOUS
  <1>3. CASE dir.state = NoState /\ ~Rejected(w, head, TRUE) /\ ~End(w)
    <2>1. ReportOK(cmd[w]) /\ cmd[w].report = NothingReported
      BY <1>1 DEF KnowledgeInv, CmdOK, ReportOK
    <2>2. PICK made : made = BuildProjectState(head, dir.state, cmd[w].report,
                                               Identity(cmd[w]), dir.phases, NoTime)
      OBVIOUS
    <2>3. PICK state : state = [made EXCEPT !.sync = "pending"]
      OBVIOUS
    <2>4. PICK d : d = [Store!EmptyStore EXCEPT !.state = state]
      OBVIOUS
    <2>5. GoOn(w, "stage", d)
      BY <1>0, <1>3, <2>1, <2>2, <2>3, <2>4 DEF DeriveInit
    <2>6. Follows(made, {})
      <3>1. cmd[w].report.build = NoStatus /\ cmd[w].report.test = NoStatus
        BY <2>1 DEF NothingReported
      <3>2. head = HeadOf(commits, dir.state, cmd[w].report.source, TRUE)
        BY <1>0, <1>3, <2>1 DEF NothingReported
      <3>3. /\ FreshSource(commits, cmd[w].report.source, TRUE)
            /\ dir.state.repository \in {NoName, Identity(cmd[w])}
        BY <1>3, NotRejected
      <3> QED
        BY <2>1, <2>2, <3>1, <3>2, <3>3, DerivedFollows DEF KnowledgeInv
    <2>7. /\ state.sync = "pending" /\ state.repository = made.repository
          /\ state.head = made.head /\ state.build = made.build /\ state.test = made.test
          /\ state.lastSuccessfulBuild = made.lastSuccessfulBuild
          /\ state.lastFailedBuild = made.lastFailedBuild
      BY <2>2, <2>3 DEF BuildProjectState
    <2>8. state # NoState
      BY <2>7 DEF NoState
    <2>9. Follows(state, {})
      BY <2>6, <2>7, <2>8 DEF Follows, StateOK, Explained
    <2>10. Whole(d) /\ d.state = state /\ d.events = {} /\ Store!OneContentPerId(d.events)
      BY <2>4, EmptyParts DEF Store!OneContentPerId
    <2> QED
      BY <1>1, <2>5, <2>9, <2>10, DraftInv
  <1> QED
    BY <1>0, <1>2, <1>3 DEF DeriveInit

LEMMA CollectInv ==
    ASSUME KnowledgeInv, NEW w \in Workers, NEW now, NEW diffed, Collect(w, now, diffed)
    PROVE  KnowledgeInv'
  <1>0. PICK head : head = HeadOf(commits, dir.state, cmd[w].report.source, diffed)
    OBVIOUS
  <1>1. pc[w] = "derive" /\ dir' = dir /\ commits' = commits
    BY DEF Collect
  <1>2. CASE End(w)
    BY <1>1, <1>2, EndedInv
  <1>3. CASE ~Rejected(w, head, diffed) /\ ~End(w)
    <2>1. ReportOK(cmd[w])
      BY <1>1 DEF KnowledgeInv, CmdOK
    <2>2. PICK state : state = BuildProjectState(head, dir.state, cmd[w].report,
                                                 Identity(cmd[w]), dir.phases, now)
      OBVIOUS
    <2>3. PICK events : events = EventsOf(cmd[w].kind, dir.state, state, cmd[w].report)
      OBVIOUS
    <2>4. PICK d : d = [Store!EmptyStore EXCEPT !.state = state, !.events = events]
      OBVIOUS
    <2>5. GoOn(w, "stage", d)
      BY <1>0, <1>3, <2>2, <2>3, <2>4 DEF Collect
    <2>6. /\ Store!OneContentPerId(events)
          /\ cmd[w].report.build # NoStatus =>
                MakeEvent("build", state.head, state.build.status, state.build.run,
                          state.build.at) \in events
          /\ cmd[w].report.test # NoStatus =>
                MakeEvent("test", state.head, state.test.status, state.test.run,
                          state.test.at) \in events
      BY <2>3, EventsOfCommand
    <2>7. Follows(state, events)
      <3>1. /\ FreshSource(commits, cmd[w].report.source, diffed)
            /\ dir.state.repository \in {NoName, Identity(cmd[w])}
        BY <1>3, NotRejected
      <3> QED
        BY <1>0, <2>1, <2>2, <2>6, <3>1, DerivedFollows DEF KnowledgeInv
    <2>8. Whole(d) /\ d.state = state /\ d.events = events
      BY <2>4, EmptyParts
    <2> QED
      BY <1>1, <2>5, <2>6, <2>7, <2>8, DraftInv
  <1> QED
    BY <1>0, <1>2, <1>3 DEF Collect

(* The copy that is staged has the old events and the new ones.            *)
LEMMA TransactionInv ==
    ASSUME KnowledgeInv, NEW w \in Workers, Transaction(w)
    PROVE  KnowledgeInv'
  <1>1. pc[w] = "stage" /\ dir' = dir /\ commits' = commits
    BY DEF Transaction, outside
  <1>2. CASE End(w)
    BY <1>1, <1>2, EndedInv
  <1>3. CASE ~End(w)
    <2>1. PICK d : d = draft[w]
      OBVIOUS
    <2>2. Whole(d) /\ Follows(d.state, d.events) /\ Store!OneContentPerId(d.events)
      BY <1>1, <2>1 DEF KnowledgeInv, DraftOK
    <2>3. PICK copy : copy = Staged(d)
      OBVIOUS
    <2>4. GoOn(w, "publish", copy) /\ \A e \in d.events : ~Collides(dir.events, e)
      BY <1>3, <2>1, <2>3 DEF Transaction
    <2>5. /\ copy = [phases |-> dir.phases, state |-> d.state,
                     status |-> RenderStatus(d.state), events |-> dir.events \cup d.events]
      BY <2>3 DEF Staged
    <2>6. /\ Whole(copy) /\ copy.state = d.state /\ copy.events = dir.events \cup d.events
          /\ copy.status = RenderStatus(copy.state)
      BY <2>5 DEF Whole
    <2>7. Follows(copy.state, copy.events)
      <3>1. dir.events \cup copy.events = dir.events \cup d.events
        BY <2>6
      <3> QED
        BY <2>2, <2>6, <3>1 DEF Follows
    <2>8. Store!OneContentPerId(copy.events)
      <3>1. \A e : Store!EventId(e) = EventId(e)
        BY DEF Store!EventId, EventId
      <3>2. Store!OneContentPerId(dir.events)
        BY DEF KnowledgeInv, DirOK
      <3>3. \A a \in dir.events, e \in d.events : EventId(a) = EventId(e) => a = e
        BY <2>4 DEF Collides
      <3> QED
        BY <2>2, <2>6, <3>1, <3>2, <3>3 DEF Store!OneContentPerId
    <2>9. /\ OthersKept(w) /\ Types' /\ pc'[w] = "publish" /\ draft'[w] = copy
          /\ cmd' = cmd /\ lock' = lock
      BY <1>1, <2>4, GoneOn DEF Steps
    <2>10. Locked(w)' /\ CmdOK(w)'
      BY <1>1, <2>9 DEF KnowledgeInv, Locked, CmdOK
    <2>11. DraftOK(w)'
      BY <1>1, <2>6, <2>7, <2>8, <2>9 DEF DraftOK, Whole, Follows, StateOK
    <2> QED
      BY <1>1, <2>9, <2>10, <2>11, QuietStep
  <1> QED
    BY <1>2, <1>3

(* The exchange: nobody else is past the lock.                             *)
LEMMA PublishInv ==
    ASSUME KnowledgeInv, NEW w \in Workers, Publish(w)
    PROVE  KnowledgeInv'
  <1>1. pc[w] = "publish" /\ dir' = draft[w] /\ End(w) /\ commits' = commits
    BY DEF Publish, outside
  <1>2. PICK d : d = draft[w]
    OBVIOUS
  <1>3. /\ Whole(d) /\ Follows(d.state, d.events) /\ Store!OneContentPerId(d.events)
        /\ dir.events \subseteq d.events
    BY <1>1, <1>2 DEF KnowledgeInv, DraftOK
  <1>4. /\ OthersKept(w) /\ Types' /\ pc'[w] = "idle"
    BY <1>1, Ended
  <1>5. DirOK'
    <2>1. dir.events \cup d.events = d.events
      BY <1>3
    <2>2. Explained(d.events, d.state) /\ StateOK(d.state)
      BY <1>3, <2>1 DEF Follows
    <2>3. dir' = d /\ Len(commits') = Len(commits)
      BY <1>1, <1>2
    <2> QED
      BY <1>3, <2>2, <2>3 DEF DirOK, Whole, StateOK
  <1>6. ASSUME NEW v \in Workers PROVE Locked(v)' /\ CmdOK(v)' /\ DraftOK(v)'
    <2>1. pc'[v] \notin {"derive", "stage", "publish"}
      BY <1>1, <1>4 DEF KnowledgeInv, Locked, OthersKept
    <2>2. Locked(v)' /\ DraftOK(v)'
      BY <2>1 DEF Locked, DraftOK
    <2>3. CmdOK(v)'
      BY <1>4 DEF KnowledgeInv, OthersKept, CmdOK, ReportOK
    <2> QED
      BY <2>2, <2>3
  <1> QED
    BY <1>4, <1>5, <1>6 DEF KnowledgeInv

(* verify holds no lock and stages nothing.                                *)
LEMMA VerifyInv ==
    ASSUME KnowledgeInv, NEW w \in Workers, VerifyRead(w) \/ VerifyCompare(w)
    PROVE  KnowledgeInv'
  <1>1. dir' = dir /\ commits' = commits
    BY DEF VerifyRead, VerifyCompare, outside
  <1>2. CASE End(w)
    BY <1>1, <1>2, EndedInv
  <1>3. CASE ~End(w)
    <2>1. PICK next \in {"compare", "finding"} : \E d : GoOn(w, next, d)
      BY <1>3 DEF VerifyRead, VerifyCompare
    <2>2. /\ OthersKept(w) /\ Types' /\ pc'[w] = next /\ lock' = lock
      BY <1>1, <2>1, GoneOn DEF Steps
    <2>3. Locked(w)' /\ CmdOK(w)' /\ DraftOK(w)'
      BY <2>2 DEF Locked, CmdOK, DraftOK
    <2> QED
      BY <1>1, <2>2, <2>3, QuietStep
  <1> QED
    BY <1>2, <1>3

(* People commit, or save phases.yaml: no process moves, and neither the   *)
(* state nor the history in the directory changes.                         *)
LEMMA OutsideInv ==
    ASSUME KnowledgeInv, UNCHANGED <<pc, cmd, draft, lock, begun>>,
           Whole(dir)', dir'.state = dir.state, dir'.events = dir.events,
           commits' \in Seq(Commits), Len(commits) <= Len(commits')
    PROVE  KnowledgeInv'
  <1>1. Types'
    BY DEF KnowledgeInv, Types
  <1>2. Len(commits) \in Nat /\ Len(commits') \in Nat
    BY <1>1 DEF KnowledgeInv, Types
  <1>3. dir'.state.head \in 0 .. Len(commits')
    BY <1>2 DEF KnowledgeInv, DirOK, StateOK
  <1>4. DirOK'
    BY <1>3 DEF KnowledgeInv, DirOK, StateOK, Explained
  <1>5. ASSUME NEW w \in Workers PROVE Locked(w)' /\ CmdOK(w)' /\ DraftOK(w)'
    <2>1. Locked(w)' /\ CmdOK(w)'
      BY DEF KnowledgeInv, Locked, CmdOK, ReportOK
    <2>2. PICK d : d = draft[w]
      OBVIOUS
    <2>3. CASE pc[w] \in {"stage", "publish"}
      <3>1. /\ Whole(d) /\ Follows(d.state, d.events) /\ Store!OneContentPerId(d.events)
            /\ pc[w] = "publish" =>
                  d.status = RenderStatus(d.state) /\ dir.events \subseteq d.events
        BY <2>2, <2>3 DEF KnowledgeInv, DraftOK
      <3>2. Follows(d.state, d.events)'
        BY <1>2, <3>1, FollowsKept DEF KnowledgeInv
      <3>3. draft'[w] = d /\ pc'[w] = pc[w]
        BY <2>2
      <3> QED
        BY <2>1, <3>1, <3>2, <3>3 DEF DraftOK, Whole, Follows, StateOK
    <2>4. CASE pc[w] \notin {"stage", "publish"}
      BY <2>1, <2>4 DEF DraftOK
    <2> QED
      BY <2>3, <2>4
  <1> QED
    BY <1>1, <1>4, <1>5 DEF KnowledgeInv

LEMMA NewCommitInv ==
    ASSUME KnowledgeInv, NEW commit \in Commits, NewCommit(commit)
    PROVE  KnowledgeInv'
  <1>1. commits \in Seq(Commits) /\ commits' = Append(commits, commit)
    BY DEF KnowledgeInv, Types, NewCommit
  <1>2. commits' \in Seq(Commits) /\ Len(commits) <= Len(commits')
    BY <1>1
  <1>3. Whole(dir)'
    BY DEF KnowledgeInv, DirOK, Whole, NewCommit
  <1> QED
    BY <1>2, <1>3, OutsideInv DEF NewCommit

(* An edit replaces one of the four files.                                 *)
LEMMA EditedDir ==
    ASSUME Whole(dir), NEW file, dir' = [dir EXCEPT !.phases = file]
    PROVE  /\ Whole(dir)' /\ dir'.state = dir.state /\ dir'.events = dir.events
           /\ dir'.phases = file
  BY DEF Whole

LEMMA EditPhasesInv ==
    ASSUME KnowledgeInv, NEW file, EditPhases(file)
    PROVE  KnowledgeInv'
  <1>1. /\ Whole(dir)' /\ dir'.state = dir.state /\ dir'.events = dir.events
    BY EditedDir DEF EditPhases, KnowledgeInv, DirOK
  <1>2. commits' = commits /\ commits \in Seq(Commits) /\ Len(commits) \in Nat
    BY DEF EditPhases, KnowledgeInv, Types
  <1>3. Len(commits) <= Len(commits')
    BY <1>2
  <1> QED
    BY <1>1, <1>2, <1>3, OutsideInv DEF EditPhases

LEMMA NextInv == KnowledgeInv /\ [Next]_vars => KnowledgeInv'
  <1> SUFFICES ASSUME KnowledgeInv, [Next]_vars PROVE KnowledgeInv'
    OBVIOUS
  <1>1. CASE UNCHANGED vars
    <2>1. UNCHANGED <<commits, dir, lock, pc, cmd, begun, draft>>
      BY <1>1 DEF vars
    <2>2. commits \in Seq(Commits) /\ Len(commits) \in Nat
      BY DEF KnowledgeInv, Types
    <2>3. Whole(dir)' /\ Len(commits) <= Len(commits')
      BY <2>1, <2>2 DEF KnowledgeInv, DirOK, Whole
    <2> QED
      BY <2>1, <2>2, <2>3, OutsideInv
  <1>2. ASSUME NEW w \in Workers, NEW c \in Commands, Begin(w, c) PROVE KnowledgeInv'
    BY <1>2, CommandReport, BeginInv
  <1>3. ASSUME NEW w \in Workers, NEW run \in CiRuns, BeginCi(w, run) PROVE KnowledgeInv'
    <2>1. PICK c : c = [kind |-> "sync", repository |-> NoName, report |-> Derive(run)]
      OBVIOUS
    <2>2. ReportOK(c) /\ Begin(w, c)
      BY <1>3, <2>1, CommandReport DEF BeginCi
    <2> QED
      BY <2>2, BeginInv
  <1>4. ASSUME NEW w \in Workers, Step(w) PROVE KnowledgeInv'
    BY <1>4, AcquireInv, DeriveInitInv, CollectInv, TransactionInv, PublishInv, VerifyInv
    DEF Step
  <1>5. ASSUME NEW w \in Workers, Stop(w) PROVE KnowledgeInv'
    BY <1>5, EndedInv DEF Stop, outside
  <1> QED
    BY <1>1, <1>2, <1>3, <1>4, <1>5, NewCommitInv, EditPhasesInv DEF Next

(* The inductive invariant holds throughout.                               *)
THEOREM KnowledgeSafety == Spec => []KnowledgeInv
  <1>1. Init => KnowledgeInv
    <2> SUFFICES ASSUME Init PROVE KnowledgeInv
      OBVIOUS
    <2>1. /\ commits = <<Root>> /\ Root \in Commits /\ dir = Store!EmptyStore
          /\ \A w \in Workers : pc[w] = "idle"
      BY RepoKnowledgeAssumption DEF Init
    <2>2. Types
      BY <2>1, RepoKnowledgeAssumption DEF Init, Types, Steps
    <2>3. dir.state = NoState /\ dir.events = {} /\ Whole(dir)
      BY <2>1, EmptyParts
    <2>4. /\ dir.state.build = UnknownBlock /\ dir.state.test = UnknownBlock
          /\ dir.state.lastSuccessfulBuild = NoBuild /\ dir.state.lastFailedBuild = NoBuild
          /\ dir.state.head = 0
      BY <2>3 DEF NoState, NoCommit
    <2>5. StateOK(dir.state)
      <3>1. Len(commits) = 1
        BY <2>1
      <3> QED
        BY <2>4, <3>1 DEF StateOK, UnknownBlock, StatusValues
    <2>6. Explained(dir.events, dir.state)
      BY <2>4 DEF Explained, Store!Recorded, UnknownBlock, NoBuild, NoCommit, Store!NoCommit
    <2>7. DirOK
      BY <2>3, <2>5, <2>6 DEF DirOK, Store!OneContentPerId
    <2> QED
      BY <2>1, <2>2, <2>7 DEF KnowledgeInv, Locked, CmdOK, DraftOK
  <1> QED
    BY <1>1, NextInv, PTL DEF Spec

(* Every variable has its type: whatever CI concludes, whatever is         *)
(* reported and however commands overlap, the status in project.yaml is    *)
(* one of the schema's and its head is a commit of the branch.             *)
THEOREM TypeCorrect == Spec => []TypeOK
  <1>1. KnowledgeInv => TypeOK
    BY DEF KnowledgeInv, Types, Steps, DirOK, StateOK, TypeOK
  <1> QED
    BY <1>1, KnowledgeSafety, PTL

------------------------------------------------------------------------------
(* A step replaces the directory by a publication, or edits its phases.    *)
LEMMA DirSteps ==
    ASSUME KnowledgeInv, [Next]_vars
    PROVE  \/ \E w \in Workers : Publish(w)
           \/ \E file \in PhaseFiles : EditPhases(file)
           \/ dir' = dir
  BY DEF Next, vars, Begin, BeginCi, Step, Acquire, DeriveInit, Collect, Transaction,
     VerifyRead, VerifyCompare, Stop, NewCommit

(* What is published over a directory follows from the directory that is   *)
(* there, not from the one the command has read.                           *)
THEOREM ImplementsKnowledgeStore == Spec => ImplementsStore
  <1>1. Init => dir = Store!EmptyStore
    BY DEF Init
  <1>2. KnowledgeInv /\ [Next]_vars => [Store!Publish \/ Store!EditPhases]_dir
    <2> SUFFICES ASSUME KnowledgeInv, [Next]_vars
                 PROVE  Store!Publish \/ Store!EditPhases \/ dir' = dir
      OBVIOUS
    <2>1. ASSUME NEW w \in Workers, Publish(w) PROVE Store!Publish
      <3>1. pc[w] = "publish" /\ dir' = draft[w]
        BY <2>1 DEF Publish
      <3>2. PICK d : d = draft[w]
        OBVIOUS
      <3>3. /\ Follows(d.state, d.events) /\ Store!OneContentPerId(d.events)
            /\ d.status = RenderStatus(d.state) /\ dir.events \subseteq d.events
        BY <3>1, <3>2 DEF KnowledgeInv, DraftOK
      <3>4. Store!RenderStatus(d.state) = RenderStatus(d.state)
        BY DEF Store!RenderStatus, RenderStatus
      <3>5. Store!NoState = NoState
        BY DEF Store!NoState, NoState, Store!NotConfigured, NotConfigured, Store!UnknownBlock,
           UnknownBlock, Store!NoBuild, NoBuild, Store!NoCommit, NoCommit, Store!NoTime, NoTime
      <3>6. Store!Accounted(d)
        <4>1. dir.events \cup d.events = d.events
          BY <3>3
        <4> QED
          BY <3>3, <4>1 DEF Store!Accounted, Follows, Explained
      <3>7. dir' = d
        BY <3>1, <3>2
      <3> QED
        BY <3>3, <3>4, <3>5, <3>6, <3>7 DEF Store!Publish, Follows
    <2>2. ASSUME NEW file, EditPhases(file) PROVE Store!EditPhases
      BY <2>2, EditedDir DEF EditPhases, Store!EditPhases, KnowledgeInv, DirOK
    <2> QED
      BY <2>1, <2>2, DirSteps
  <1> QED
    BY <1>1, <1>2, KnowledgeSafety, PTL DEF Spec, ImplementsStore, Store!StoreSpec

(* The source of commit h is that of one no older than the recorded head.  *)
Visible(h) ==
    /\ h \in DOMAIN commits
    /\ \E k \in DOMAIN commits :
          k >= dir.state.head /\ commits[k].source = commits[h].source

(* What waits for its exchange hides no source, unless its diff failed.    *)
VisibleInv ==
    \A w \in Workers : pc[w] \in {"stage", "publish"} => blind \/ Visible(draft[w].state.head)

(* The check of build_project_state: the head it takes has the source of   *)
(* the tip, of the recorded head, or is the tip.                           *)
LEMMA HeadVisible ==
    ASSUME Types, DirOK, NEW source \in Nat, NEW diffed,
           FreshSource(commits, source, diffed), FreshSource(commits, source, TRUE)
    PROVE  Visible(HeadOf(commits, dir.state, source, diffed))
  <1>1. PICK n \in Nat, h \in Nat : n = Len(commits) /\ h = dir.state.head /\ h <= n /\ n > 0
    BY DEF Types, DirOK, StateOK
  <1>2. DOMAIN commits = 1 .. n /\ n \in 1 .. n
    BY <1>1 DEF Types
  <1>3. PICK head : head = HeadOf(commits, dir.state, source, diffed)
    OBVIOUS
  <1>4. head \in 1 .. n
    BY <1>1, <1>3, HeadOnBranch
  <1>5. CASE source # NoCommit
    BY <1>1, <1>2, <1>3, <1>4, <1>5 DEF HeadOf, FreshSource, SameSource, Visible
  <1>6. CASE source = NoCommit
    <2>1. head = h \/ head = n
      BY <1>1, <1>3, <1>6 DEF HeadOf
    <2> QED
      BY <1>1, <1>2, <1>3, <1>4, <2>1 DEF Visible
  <1> QED
    BY <1>5, <1>6

LEMMA VisibleStep == KnowledgeInv /\ VisibleInv /\ [Next]_vars => VisibleInv'
  <1> SUFFICES ASSUME KnowledgeInv, VisibleInv, [Next]_vars, NEW v \in Workers,
                      pc'[v] \in {"stage", "publish"}
               PROVE  blind' \/ Visible(draft[v].state.head)'
    BY DEF VisibleInv
  <1> DEFINE Seen == blind' \/ Visible(draft[v].state.head)'
  <1>1. ASSUME pc[v] \in {"stage", "publish"}, draft'[v] = draft[v], blind' = blind,
               dir'.state = dir.state,
               commits' = commits \/ \E commit \in Commits : commits' = Append(commits, commit)
        PROVE  Seen
    <2>1. blind \/ Visible(draft[v].state.head)
      BY <1>1 DEF VisibleInv
    <2>2. /\ DOMAIN commits \subseteq DOMAIN commits'
          /\ \A k \in DOMAIN commits : commits'[k] = commits[k]
      BY <1>1 DEF KnowledgeInv, Types
    <2> QED
      BY <1>1, <2>1, <2>2 DEF Visible
  <1>2. ASSUME NEW w \in Workers, End(w), commits' = commits, blind' = blind,
               dir'.state = dir.state \/ pc[w] = "publish"
        PROVE  Seen
    <2>1. OthersKept(w) /\ pc'[w] = "idle"
      BY <1>2, Ended
    <2>2. v # w /\ pc[v] \in {"stage", "publish"} /\ draft'[v] = draft[v]
      BY <2>1 DEF OthersKept
    <2>3. pc[w] # "publish"
      BY <2>2 DEF KnowledgeInv, Locked
    <2> QED
      BY <1>1, <1>2, <2>2, <2>3
  <1>3. ASSUME NEW w \in Workers, NEW next \in Steps, NEW d, GoOn(w, next, d),
               commits' = commits, blind' = blind, dir' = dir,
               v = w /\ next \in {"stage", "publish"} => Visible(d.state.head) \/ blind
        PROVE  Seen
    <2>1. OthersKept(w) /\ pc'[w] = next /\ draft'[w] = d
      BY <1>3, GoneOn
    <2>2. CASE v = w
      BY <1>3, <2>1, <2>2 DEF Visible
    <2>3. CASE v # w
      BY <1>1, <1>3, <2>1, <2>3 DEF OthersKept
    <2> QED
      BY <2>2, <2>3
  <1>4. ASSUME NEW w \in Workers, NEW now, NEW diffed, Collect(w, now, diffed) PROVE Seen
    <2>1. /\ pc[w] = "derive" /\ commits' = commits /\ dir' = dir
      BY <1>4 DEF Collect
    <2>2. CASE End(w) /\ blind' = blind
      BY <1>2, <2>1, <2>2
    <2>3. PICK head : head = HeadOf(commits, dir.state, cmd[w].report.source, diffed)
      OBVIOUS
    <2>4. PICK state : state = BuildProjectState(head, dir.state, cmd[w].report,
                                                 Identity(cmd[w]), dir.phases, now)
      OBVIOUS
    <2>5. PICK d : d = [Store!EmptyStore EXCEPT
                          !.state = state,
                          !.events = EventsOf(cmd[w].kind, dir.state, state, cmd[w].report)]
      OBVIOUS
    <2>6. CASE /\ ~Rejected(w, head, diffed) /\ GoOn(w, "stage", d)
               /\ blind' = ~FreshSource(commits, cmd[w].report.source, TRUE)
      <3>1. OthersKept(w) /\ pc'[w] = "stage" /\ draft'[w] = d
        BY <2>1, <2>6, GoneOn DEF Steps
      <3>2. v = w
        BY <2>1, <3>1 DEF OthersKept, KnowledgeInv, Locked
      <3>3. d.state = state /\ state.head = head
        BY <2>4, <2>5 DEF Store!EmptyStore, BuildProjectState
      <3>4. FreshSource(commits, cmd[w].report.source, diffed) /\ cmd[w].report.source \in Nat
        BY <2>1, <2>6, NotRejected DEF KnowledgeInv, CmdOK, ReportOK
      <3>5. blind' \/ Visible(head)
        BY <2>3, <2>6, <3>4, HeadVisible DEF KnowledgeInv
      <3> QED
        BY <2>1, <3>1, <3>2, <3>3, <3>5 DEF Visible
    <2> QED
      BY <1>4, <2>2, <2>3, <2>4, <2>5, <2>6 DEF Collect
  <1>5. ASSUME NEW w \in Workers, DeriveInit(w) PROVE Seen
    <2>1. /\ UNCHANGED <<commits, dir, blind>> /\ pc[w] = "derive"
      BY <1>5 DEF DeriveInit, outside
    <2>2. CASE End(w)
      BY <1>2, <2>1, <2>2
    <2>3. CASE ~End(w)
      <3>1. PICK head : head = HeadOf(commits, NoState, NoCommit, TRUE)
        OBVIOUS
      <3>2. PICK made : made = BuildProjectState(head, NoState, NothingReported,
                                                 Identity(cmd[w]), dir.phases, NoTime)
        OBVIOUS
      <3>3. PICK d : d = [Store!EmptyStore EXCEPT !.state = [made EXCEPT !.sync = "pending"]]
        OBVIOUS
      <3>4. GoOn(w, "stage", d) /\ dir.state = NoState
        BY <1>5, <2>3, <3>1, <3>2, <3>3 DEF DeriveInit
      <3>5. d.state.head = head
        BY <3>2, <3>3 DEF Store!EmptyStore, BuildProjectState
      <3>6. Visible(head)
        BY <3>1, <3>4, HeadVisible DEF KnowledgeInv, FreshSource, NoCommit
      <3> QED
        BY <1>3, <2>1, <3>4, <3>5, <3>6 DEF Steps
    <2> QED
      BY <2>2, <2>3
  <1>6. ASSUME NEW w \in Workers, Transaction(w) PROVE Seen
    <2>1. PICK d : d = draft[w]
      OBVIOUS
    <2>2. /\ pc[w] = "stage" /\ UNCHANGED <<commits, dir, blind>>
          /\ End(w) \/ GoOn(w, "publish", Staged(d))
      BY <1>6, <2>1 DEF Transaction, outside
    <2>3. Staged(d).state = d.state
      BY DEF Staged
    <2>4. blind \/ Visible(d.state.head)
      BY <2>1, <2>2 DEF VisibleInv
    <2> QED
      BY <1>2, <1>3, <2>2, <2>3, <2>4 DEF Steps
  <1>7. ASSUME NEW w \in Workers, Publish(w) \/ Stop(w) PROVE Seen
    BY <1>2, <1>7 DEF Publish, Stop, outside
  <1>8. ASSUME NEW w \in Workers, VerifyRead(w) \/ VerifyCompare(w) PROVE Seen
    <2>1. /\ UNCHANGED <<commits, dir, blind>>
          /\ End(w) \/ \E next \in {"compare", "finding"} : \E d : GoOn(w, next, d)
      BY <1>8, Zenon DEF VerifyRead, VerifyCompare, outside
    <2> QED
      BY <1>2, <1>3, <2>1 DEF Steps
  <1>9. ASSUME NEW w \in Workers, Acquire(w) \/ \E c : Begin(w, c) PROVE Seen
    <2>1. /\ UNCHANGED <<commits, dir, blind, draft>>
          /\ \E next \in {"derive", "read", "lock"} : pc' = [pc EXCEPT ![w] = next]
      BY <1>9 DEF Acquire, Begin, outside
    <2>2. pc[v] \in {"stage", "publish"}
      BY <2>1 DEF KnowledgeInv, Types
    <2> QED
      BY <1>1, <2>1, <2>2
  <1>10. ASSUME NEW file, EditPhases(file) PROVE Seen
    <2>1. dir'.state = dir.state
      BY <1>10, EditedDir DEF EditPhases, KnowledgeInv, DirOK
    <2> QED
      BY <1>1, <1>10, <2>1 DEF EditPhases
  <1>11. ASSUME UNCHANGED vars \/ \E commit \in Commits : NewCommit(commit) PROVE Seen
    BY <1>1, <1>11 DEF vars, NewCommit
  <1> HIDE DEF Seen
  <1>12. Seen
    BY <1>4, <1>5, <1>6, <1>7, <1>8, <1>9, <1>10, <1>11 DEF Next, Step, BeginCi
  <1> QED
    BY <1>12 DEF Seen

(* A result may come late, a change may be reverted and commits may land   *)
(* between the check and the exchange: the head that is recorded still has *)
(* the source of a commit no older than the head recorded before, unless   *)
(* the diff behind the check failed.                                       *)
THEOREM SourceStaysVisible == Spec => NoSourceHidden
  <1>1. Init => VisibleInv
    BY DEF Init, VisibleInv
  <1> DEFINE Shown == dir'.state.head # dir.state.head =>
                         \/ blind
                         \/ \E k \in DOMAIN commits :
                               /\ k >= dir.state.head
                               /\ commits[k].source = commits[dir'.state.head].source
  <1>2. KnowledgeInv /\ VisibleInv /\ [Next]_vars => [Shown]_vars
    <2> SUFFICES ASSUME KnowledgeInv, VisibleInv, [Next]_vars,
                        dir'.state.head # dir.state.head, ~blind
                 PROVE  \E k \in DOMAIN commits :
                           /\ k >= dir.state.head
                           /\ commits[k].source = commits[dir'.state.head].source
      OBVIOUS
    <2>1. ASSUME NEW file, EditPhases(file) PROVE dir'.state = dir.state
      BY <2>1, EditedDir DEF EditPhases, KnowledgeInv, DirOK
    <2>2. PICK w \in Workers : Publish(w)
      BY <2>1, DirSteps
    <2>3. pc[w] = "publish" /\ dir' = draft[w]
      BY <2>2 DEF Publish
    <2> QED
      BY <2>3 DEF VisibleInv, Visible
  <1> QED
    BY <1>1, <1>2, VisibleStep, KnowledgeSafety, PTL DEF Spec, NoSourceHidden

(* What a person saved in phases.yaml survives every command, unless it    *)
(* was saved while a copy made before it was waiting for its exchange.     *)
THEOREM PhasesSurvive == Spec => []PhasesKeptUnlessOverlapped
  <1>1. Init => PhasesOK
    BY EmptyParts DEF Init, PhasesOK
  <1>2. KnowledgeInv /\ KnowledgeInv' /\ PhasesOK /\ [Next]_vars => PhasesOK'
    <2> SUFFICES ASSUME KnowledgeInv, KnowledgeInv', PhasesOK, [Next]_vars PROVE PhasesOK'
      OBVIOUS
    <2>1. ASSUME NEW file, EditPhases(file) PROVE PhasesOK'
      <3>1. /\ dir'.phases = file /\ edited' = file /\ pc' = pc
            /\ overlapped' = (overlapped \/ \E w \in Workers : pc[w] = "publish")
        BY <2>1, EditedDir DEF EditPhases, KnowledgeInv, DirOK
      <3>2. CASE \E w \in Workers : pc[w] = "publish"
        BY <3>1, <3>2 DEF PhasesOK
      <3>3. CASE \A w \in Workers : pc[w] # "publish"
        BY <3>1, <3>3 DEF PhasesOK
      <3> QED
        BY <3>2, <3>3
    <2>2. ASSUME NEW w \in Workers, Transaction(w) PROVE PhasesOK'
      <3>1. commits' = commits /\ dir' = dir /\ edited' = edited /\ overlapped' = overlapped
        BY <2>2 DEF Transaction, outside
      <3>2. PICK d : d = draft[w]
        OBVIOUS
      <3>3. End(w) \/ GoOn(w, "publish", Staged(d))
        BY <2>2, <3>2 DEF Transaction
      <3>4. /\ OthersKept(w)
            /\ pc'[w] = "publish" => draft'[w] = Staged(d)
        BY <3>1, <3>3, Ended, GoneOn DEF Steps
      <3>5. pc'[w] = "publish" => draft'[w].phases = dir.phases
        BY <3>4 DEF Staged
      <3> QED
        BY <3>1, <3>4, <3>5 DEF PhasesOK, OthersKept
    <2>3. ASSUME NEW w \in Workers, Publish(w) PROVE PhasesOK'
      <3>1. /\ pc[w] = "publish" /\ dir' = draft[w] /\ End(w)
            /\ commits' = commits /\ edited' = edited /\ overlapped' = overlapped
        BY <2>3 DEF Publish, outside
      <3>2. OthersKept(w) /\ pc'[w] = "idle"
        BY <3>1, Ended
      <3> QED
        BY <3>1, <3>2 DEF PhasesOK, OthersKept
    <2>4. CASE /\ UNCHANGED <<dir, edited, overlapped>>
               /\ \A w \in Workers : pc'[w] = "publish" =>
                                       pc[w] = "publish" /\ draft'[w] = draft[w]
      BY <2>4 DEF PhasesOK
    <2>5. ASSUME NEW w \in Workers, UNCHANGED <<dir, edited, overlapped, commits>>,
                 \/ End(w)
                 \/ \E next \in {"stage", "compare", "finding"} : \E d : GoOn(w, next, d)
          PROVE  PhasesOK'
      <3>1. OthersKept(w) /\ pc'[w] # "publish"
        <4>1. CASE End(w)
          BY <2>5, <4>1, Ended
        <4>2. ASSUME NEW next \in {"stage", "compare", "finding"}, NEW d, GoOn(w, next, d)
              PROVE  OthersKept(w) /\ pc'[w] # "publish"
          BY <2>5, <4>2, GoneOn DEF Steps
        <4> QED
          BY <2>5, <4>1, <4>2
      <3> QED
        BY <2>4, <2>5, <3>1 DEF OthersKept
    <2>6. ASSUME NEW w \in Workers, NEW c, Begin(w, c) PROVE PhasesOK'
      <3>1. pc[w] = "idle" /\ pc' = [pc EXCEPT ![w] = IF c.kind = "verify" THEN "read" ELSE "lock"]
            /\ UNCHANGED <<dir, edited, overlapped, draft>>
        BY <2>6 DEF Begin, outside
      <3> QED
        BY <2>4, <3>1 DEF KnowledgeInv, Types
    <2>7. ASSUME NEW w \in Workers, Acquire(w) PROVE PhasesOK'
      <3>1. pc' = [pc EXCEPT ![w] = "derive"] /\ UNCHANGED <<dir, edited, overlapped, draft>>
        BY <2>7 DEF Acquire, outside
      <3> QED
        BY <2>4, <3>1 DEF KnowledgeInv, Types
    <2>8. ASSUME NEW w \in Workers,
                 \/ DeriveInit(w) \/ \E now \in Nows, diffed \in BOOLEAN : Collect(w, now, diffed)
                 \/ VerifyRead(w) \/ VerifyCompare(w) \/ Stop(w)
          PROVE  PhasesOK'
      <3>1. /\ UNCHANGED <<dir, edited, overlapped, commits>>
            /\ \/ End(w)
               \/ \E next \in {"stage", "compare", "finding"} : \E d : GoOn(w, next, d)
        BY <2>8, Zenon DEF DeriveInit, Collect, VerifyRead, VerifyCompare, Stop, outside
      <3> QED
        BY <2>5, <3>1
    <2>9. ASSUME UNCHANGED vars \/ \E commit \in Commits : NewCommit(commit)
          PROVE  PhasesOK'
      BY <2>4, <2>9 DEF vars, NewCommit
    <2> QED
      BY <2>1, <2>2, <2>3, <2>6, <2>7, <2>8, <2>9 DEF Next, Step, BeginCi
  <1>3. PhasesOK => PhasesKeptUnlessOverlapped
    BY DEF PhasesOK, PhasesKeptUnlessOverlapped
  <1> QED
    BY <1>1, <1>2, <1>3, KnowledgeSafety, PTL DEF Spec

------------------------------------------------------------------------------
(* What a reader of the directory may rely on.                             *)

Rendered == dir.status = RenderStatus(dir.state)

LEMMA RenderedKept == KnowledgeInv /\ Rendered /\ [Next]_vars => Rendered'
  <1> SUFFICES ASSUME KnowledgeInv, Rendered, [Next]_vars PROVE Rendered'
    OBVIOUS
  <1>1. ASSUME NEW w \in Workers, Publish(w) PROVE Rendered'
    <2>1. pc[w] = "publish" /\ dir' = draft[w]
      BY <1>1 DEF Publish
    <2>2. draft[w].status = RenderStatus(draft[w].state)
      BY <2>1 DEF KnowledgeInv, DraftOK
    <2> QED
      BY <2>1, <2>2 DEF Rendered
  <1>2. ASSUME NEW file, EditPhases(file) PROVE Rendered'
    <2>1. dir' = [dir EXCEPT !.phases = file] /\ Whole(dir)
      BY <1>2 DEF EditPhases, KnowledgeInv, DirOK
    <2>2. dir'.state = dir.state /\ dir'.status = dir.status
      BY <2>1 DEF Whole
    <2> QED
      BY <2>2 DEF Rendered
  <1>3. CASE dir' = dir
    BY <1>3 DEF Rendered
  <1> QED
    BY <1>1, <1>2, <1>3, DirSteps

(* Whatever commands, edits, commits and crashes went before, a .repo that *)
(* is read as one snapshot is consistent: STATUS.md is the rendering of    *)
(* project.yaml, the history accounts for every build that project.yaml    *)
(* names, and no event identifier stands for two contents.                 *)
THEOREM SnapshotsConsistent ==
    Spec => [](/\ Rendered
               /\ Store!Accounted(dir)
               /\ Store!OneContentPerId(dir.events))
  <1>1. Init => Rendered
    <2> SUFFICES ASSUME Init PROVE Rendered
      OBVIOUS
    <2>1. dir = Store!EmptyStore
      BY DEF Init
    <2>2. Store!NoState = NoState /\ Store!RenderStatus(NoState) = RenderStatus(NoState)
      BY DEF Store!NoState, NoState, Store!NotConfigured, NotConfigured, Store!UnknownBlock,
         UnknownBlock, Store!NoBuild, NoBuild, Store!NoCommit, NoCommit, Store!NoTime, NoTime,
         Store!RenderStatus, RenderStatus
    <2>3. dir.state = NoState /\ dir.status = RenderStatus(NoState)
      BY <2>1, <2>2 DEF Store!EmptyStore
    <2> QED
      BY <2>3 DEF Rendered
  <1>2. KnowledgeInv => Store!Accounted(dir) /\ Store!OneContentPerId(dir.events)
    BY DEF KnowledgeInv, DirOK, Explained, Store!Accounted
  <1> QED
    BY <1>1, <1>2, RenderedKept, KnowledgeSafety, PTL DEF Spec

(* No publication waits for its exchange while verify is between its two   *)
(* files: so it would be if verify took the lock as the writers do.        *)
ReadersExclude ==
    \A v, w \in Workers : pc[v] = "compare" => pc[w] # "publish"

(* What verify has read is still what it compares with.                    *)
ReadersAgree ==
    /\ Rendered
    /\ \A w \in Workers : pc[w] = "compare" => draft[w].state = dir.state
    /\ VerifyNeverTorn

LEMMA ReadersStep ==
    ReadersExclude /\ KnowledgeInv /\ ReadersAgree /\ [Next]_vars => ReadersAgree'
  <1> SUFFICES ASSUME ReadersExclude, KnowledgeInv, ReadersAgree, [Next]_vars
               PROVE  ReadersAgree'
    OBVIOUS
  <1>1. Rendered'
    BY RenderedKept DEF ReadersAgree
  <1> DEFINE Quiet(w) == /\ pc'[w] = "compare" => draft'[w].state = dir'.state
                         /\ pc'[w] # "finding"
  <1>2. SUFFICES ASSUME NEW v \in Workers PROVE Quiet(v)
    BY <1>1 DEF ReadersAgree, VerifyNeverTorn
  <1>3. (pc[v] = "compare" => draft[v].state = dir.state) /\ pc[v] # "finding"
    BY DEF ReadersAgree, VerifyNeverTorn
  <1>4. ASSUME pc'[v] = pc[v], draft'[v] = draft[v], dir'.state = dir.state PROVE Quiet(v)
    BY <1>3, <1>4
  <1>5. ASSUME NEW w \in Workers, End(w), UNCHANGED <<commits, dir>> PROVE Quiet(v)
    <2>1. OthersKept(w) /\ pc'[w] = "idle"
      BY <1>5, Ended
    <2> QED
      BY <1>4, <1>5, <2>1 DEF OthersKept
  <1>6. ASSUME NEW w \in Workers, NEW next \in Steps, NEW d, GoOn(w, next, d),
               UNCHANGED <<commits, dir>>, next # "finding",
               next = "compare" => d.state = dir.state
        PROVE  Quiet(v)
    <2>1. OthersKept(w) /\ pc'[w] = next /\ draft'[w] = d
      BY <1>6, GoneOn
    <2> QED
      BY <1>4, <1>6, <2>1 DEF OthersKept
  <1>7. ASSUME NEW w \in Workers, Publish(w) PROVE Quiet(v)
    <2>1. pc[w] = "publish" /\ End(w) /\ commits' = commits
      BY <1>7 DEF Publish, outside
    <2>2. OthersKept(w) /\ pc'[w] = "idle"
      BY <2>1, Ended
    <2>3. pc[v] # "compare"
      BY <2>1 DEF ReadersExclude
    <2> QED
      BY <1>3, <2>2, <2>3 DEF OthersKept
  <1>8. ASSUME NEW w \in Workers, VerifyCompare(w) PROVE Quiet(v)
    <2>1. pc[w] = "compare" /\ UNCHANGED <<commits, dir>>
      BY <1>8 DEF VerifyCompare, outside
    <2>2. draft[w].state = dir.state
      BY <2>1 DEF ReadersAgree
    <2>3. dir.status = RenderStatus(draft[w].state)
      BY <2>2 DEF ReadersAgree, Rendered
    <2>4. End(w)
      BY <1>8, <2>3 DEF VerifyCompare
    <2> QED
      BY <1>5, <2>1, <2>4
  <1>9. ASSUME NEW w \in Workers, VerifyRead(w) PROVE Quiet(v)
    <2>1. UNCHANGED <<commits, dir>> /\ (End(w) \/ GoOn(w, "compare", dir))
      BY <1>9 DEF VerifyRead, outside
    <2> QED
      BY <1>5, <1>6, <2>1 DEF Steps
  <1>10. ASSUME NEW w \in Workers, Transaction(w) PROVE Quiet(v)
    <2>1. UNCHANGED <<commits, dir>> /\ (End(w) \/ GoOn(w, "publish", Staged(draft[w])))
      BY <1>10 DEF Transaction, outside
    <2> QED
      BY <1>5, <1>6, <2>1 DEF Steps
  <1>11. ASSUME NEW w \in Workers, DeriveInit(w) \/ \E now \in Nows, diffed \in BOOLEAN : Collect(w, now, diffed)
         PROVE  Quiet(v)
    <2>1. UNCHANGED <<commits, dir>> /\ (End(w) \/ \E d : GoOn(w, "stage", d))
      BY <1>11, Zenon DEF DeriveInit, Collect, outside
    <2> QED
      BY <1>5, <1>6, <2>1 DEF Steps
  <1>12. ASSUME NEW w \in Workers, Stop(w) PROVE Quiet(v)
    BY <1>5, <1>12 DEF Stop, outside
  <1>13. ASSUME NEW w \in Workers, NEW c, Begin(w, c) PROVE Quiet(v)
    <2>1. /\ pc' = [pc EXCEPT ![w] = IF c.kind = "verify" THEN "read" ELSE "lock"]
          /\ UNCHANGED <<dir, draft>>
      BY <1>13 DEF Begin
    <2> QED
      BY <1>3, <2>1 DEF KnowledgeInv, Types
  <1>14. ASSUME NEW w \in Workers, Acquire(w) PROVE Quiet(v)
    <2>1. pc' = [pc EXCEPT ![w] = "derive"] /\ UNCHANGED <<dir, draft>>
      BY <1>14 DEF Acquire
    <2> QED
      BY <1>3, <2>1 DEF KnowledgeInv, Types
  <1>15. ASSUME NEW file, EditPhases(file) PROVE Quiet(v)
    <2>1. dir'.state = dir.state
      BY <1>15, EditedDir DEF EditPhases, KnowledgeInv, DirOK
    <2> QED
      BY <1>4, <1>15, <2>1 DEF EditPhases
  <1>16. ASSUME UNCHANGED vars \/ \E commit \in Commits : NewCommit(commit)
         PROVE  Quiet(v)
    BY <1>4, <1>16 DEF vars, NewCommit
  <1> HIDE DEF Quiet
  <1> QED
    BY <1>7, <1>8, <1>9, <1>10, <1>11, <1>12, <1>13, <1>14, <1>15, <1>16
    DEF Next, Step, BeginCi

(* The exchange of two directories is the only thing that can make verify  *)
(* report a wrong STATUS.md: as long as none waits while verify is between *)
(* its two files it finds nothing, whatever is committed, edited, derived  *)
(* or killed meanwhile.                                                    *)
THEOREM TornOnlyByPublication == Spec /\ []ReadersExclude => []VerifyNeverTorn
  <1>1. Init /\ Rendered => ReadersAgree
    BY DEF Init, ReadersAgree, VerifyNeverTorn
  <1>2. Spec => []Rendered
    BY SnapshotsConsistent, PTL
  <1>3. ReadersAgree => VerifyNeverTorn
    BY DEF ReadersAgree
  <1> QED
    BY <1>1, <1>2, <1>3, ReadersStep, KnowledgeSafety, PTL DEF Spec

------------------------------------------------------------------------------
(* A command is repeated: its answer was lost, or CI delivers a run again. *)

(* The derived .repo already says everything the command reports.          *)
Repeatable(c, d) ==
    LET s == d.state
        r == c.report
    IN  /\ s = [repository |-> s.repository, head |-> s.head,
                generatedAt |-> Max({CommittedAt(s.head), s.build.at, s.test.at}),
                phases |-> s.phases, build |-> s.build, test |-> s.test,
                lastSuccessfulBuild |-> s.lastSuccessfulBuild,
                lastFailedBuild |-> s.lastFailedBuild, sync |-> "ok"]
        /\ s.head # NoCommit /\ (r.source # NoCommit => s.head = r.source)
        /\ r.build # NoStatus => SameResult(s.build, r.build, r, s.head)
        /\ r.test # NoStatus => SameResult(s.test, r.test, r, s.head)
        /\ s.lastSuccessfulBuild = LastSuccessfulBuild(s, r, s.build)
        /\ s.lastFailedBuild = LastFailedBuild(s, r, s.build)
        /\ EventsOf(c.kind, s, s, r) \subseteq d.events

Collecting(c) == c.kind \in {"collect", "sync"}

RepeatInv ==
    /\ Len(commits) > 0
    /\ \A w \in Workers :
          pc[w] \in {"stage", "publish"} /\ Collecting(cmd[w]) => Repeatable(cmd[w], draft[w])

(* What a collection derives is repeatable.                                *)
LEMMA DerivedRepeatable ==
    ASSUME Len(commits) \in Nat, Len(commits) > 0, NEW c, NEW existing, NEW repository,
           NEW declared, NEW now, NEW diffed, NEW head, NEW d,
           head = HeadOf(commits, existing, c.report.source, diffed),
           d.state = BuildProjectState(head, existing, c.report, repository, declared, now),
           d.events = EventsOf(c.kind, existing, d.state, c.report)
    PROVE  Repeatable(c, d)
  <1>1. PICK s, r : s = d.state /\ r = c.report
    OBVIOUS
  <1>2. head = HeadOf(commits, existing, r.source, diffed)
    BY <1>1
  <1>3. PICK b, t : /\ b = RunBlock(r.build, r, existing.build, head, now)
                    /\ t = RunBlock(r.test, r, existing.test, head, now)
    OBVIOUS
  <1>4. s = [repository |-> repository, head |-> head,
             generatedAt |-> Max({CommittedAt(head), b.at, t.at}),
             phases |-> ComputePhases(declared), build |-> b, test |-> t,
             lastSuccessfulBuild |-> LastSuccessfulBuild(existing, r, b),
             lastFailedBuild |-> LastFailedBuild(existing, r, b), sync |-> "ok"]
    BY <1>1, <1>2, <1>3 DEF BuildProjectState
  <1>5. /\ s.head = head /\ s.build = b /\ s.test = t
        /\ s.lastSuccessfulBuild = LastSuccessfulBuild(existing, r, b)
        /\ s.lastFailedBuild = LastFailedBuild(existing, r, b)
        /\ s = [repository |-> s.repository, head |-> s.head,
                generatedAt |-> Max({CommittedAt(s.head), s.build.at, s.test.at}),
                phases |-> s.phases, build |-> s.build, test |-> s.test,
                lastSuccessfulBuild |-> s.lastSuccessfulBuild,
                lastFailedBuild |-> s.lastFailedBuild, sync |-> "ok"]
    BY <1>4
  <1>6. head # NoCommit /\ (r.source # NoCommit => head = r.source)
    BY <1>2 DEF HeadOf, NoCommit
  <1>7. /\ r.build # NoStatus => SameResult(b, r.build, r, head)
        /\ r.test # NoStatus => SameResult(t, r.test, r, head)
    BY <1>3 DEF RunBlock, SameResult
  <1>8. /\ s.lastSuccessfulBuild = LastSuccessfulBuild(s, r, s.build)
        /\ s.lastFailedBuild = LastFailedBuild(s, r, s.build)
    BY <1>5 DEF LastSuccessfulBuild, LastFailedBuild
  <1>9. EventsOf(c.kind, s, s, r) \subseteq d.events
    BY <1>1 DEF EventsOf, When
  <1> QED
    BY <1>1, <1>5, <1>6, <1>7, <1>8, <1>9 DEF Repeatable

LEMMA RepeatStep == KnowledgeInv /\ RepeatInv /\ [Next]_vars => RepeatInv'
  <1> SUFFICES ASSUME KnowledgeInv, RepeatInv, [Next]_vars PROVE RepeatInv'
    OBVIOUS
  <1>1. Len(commits) \in Nat /\ Len(commits') \in Nat /\ Len(commits') > 0
    <2>1. commits \in Seq(Commits) /\ Len(commits) > 0
      BY DEF KnowledgeInv, Types, RepeatInv
    <2>2. commits' = commits \/ \E commit \in Commits : commits' = Append(commits, commit)
      BY DEF Next, vars, outside, Begin, BeginCi, Step, Acquire, DeriveInit, Collect,
         Transaction, Publish, VerifyRead, VerifyCompare, Stop, NewCommit, EditPhases
    <2> QED
      BY <2>1, <2>2
  <1> DEFINE Fine(v) == pc'[v] \in {"stage", "publish"} /\ Collecting(cmd'[v])
                          => Repeatable(cmd'[v], draft'[v])
  <1>2. SUFFICES ASSUME NEW v \in Workers PROVE Fine(v)
    BY <1>1 DEF RepeatInv
  <1>3. ASSUME pc'[v] = pc[v], cmd'[v] = cmd[v], draft'[v] = draft[v] PROVE Fine(v)
    BY <1>3 DEF RepeatInv
  <1>4. ASSUME NEW w \in Workers, End(w), commits' = commits PROVE Fine(v)
    <2>1. OthersKept(w) /\ pc'[w] = "idle"
      BY <1>4, Ended
    <2> QED
      BY <1>3, <2>1 DEF OthersKept
  <1>5. ASSUME NEW w \in Workers, NEW next \in Steps, NEW d, GoOn(w, next, d),
               commits' = commits,
               next \in {"stage", "publish"} /\ Collecting(cmd[w]) => Repeatable(cmd[w], d)
        PROVE  Fine(v)
    <2>1. OthersKept(w) /\ pc'[w] = next /\ draft'[w] = d /\ cmd' = cmd
      BY <1>5, GoneOn
    <2> QED
      BY <1>3, <1>5, <2>1 DEF OthersKept
  <1>6. ASSUME NEW w \in Workers, NEW now, NEW diffed, Collect(w, now, diffed) PROVE Fine(v)
    <2>0. PICK head : head = HeadOf(commits, dir.state, cmd[w].report.source, diffed)
      OBVIOUS
    <2>1. PICK state : state = BuildProjectState(head, dir.state, cmd[w].report,
                                                 Identity(cmd[w]), dir.phases, now)
      OBVIOUS
    <2>2. PICK d : d = [Store!EmptyStore EXCEPT
                          !.state = state,
                          !.events = EventsOf(cmd[w].kind, dir.state, state, cmd[w].report)]
      OBVIOUS
    <2>3. commits' = commits /\ (End(w) \/ GoOn(w, "stage", d))
      BY <1>6, <2>0, <2>1, <2>2 DEF Collect
    <2>4. /\ d.state = state
          /\ d.events = EventsOf(cmd[w].kind, dir.state, state, cmd[w].report)
      BY <2>2 DEF Store!EmptyStore
    <2>5. Repeatable(cmd[w], d)
      BY <1>1, <2>0, <2>1, <2>4, DerivedRepeatable DEF RepeatInv
    <2> QED
      BY <1>4, <1>5, <2>3, <2>5 DEF Steps
  <1>7. ASSUME NEW w \in Workers, DeriveInit(w) PROVE Fine(v)
    <2>1. /\ commits' = commits /\ ~Collecting(cmd[w])
          /\ End(w) \/ \E d : GoOn(w, "stage", d)
      BY <1>7, Zenon DEF DeriveInit, outside, Collecting
    <2> QED
      BY <1>4, <1>5, <2>1 DEF Steps
  <1>8. ASSUME NEW w \in Workers, Transaction(w) PROVE Fine(v)
    <2>1. PICK d : d = draft[w]
      OBVIOUS
    <2>2. pc[w] = "stage" /\ commits' = commits /\ (End(w) \/ GoOn(w, "publish", Staged(d)))
      BY <1>8, <2>1 DEF Transaction, outside
    <2>3. Staged(d).state = d.state /\ d.events \subseteq Staged(d).events
      BY DEF Staged
    <2>4. Collecting(cmd[w]) => Repeatable(cmd[w], d)
      BY <2>1, <2>2 DEF RepeatInv
    <2>5. Collecting(cmd[w]) => Repeatable(cmd[w], Staged(d))
      BY <2>3, <2>4 DEF Repeatable
    <2> QED
      BY <1>4, <1>5, <2>2, <2>5 DEF Steps
  <1>9. ASSUME NEW w \in Workers, VerifyRead(w) \/ VerifyCompare(w) PROVE Fine(v)
    <2>1. /\ commits' = commits
          /\ End(w) \/ \E next \in {"compare", "finding"} : \E d : GoOn(w, next, d)
      BY <1>9, Zenon DEF VerifyRead, VerifyCompare, outside
    <2> QED
      BY <1>4, <1>5, <2>1 DEF Steps
  <1>10. ASSUME NEW w \in Workers, Publish(w) \/ Stop(w) PROVE Fine(v)
    BY <1>4, <1>10 DEF Publish, Stop, outside
  <1>11. ASSUME NEW w \in Workers, NEW c, Begin(w, c) PROVE Fine(v)
    <2>1. /\ pc' = [pc EXCEPT ![w] = IF c.kind = "verify" THEN "read" ELSE "lock"]
          /\ cmd' = [cmd EXCEPT ![w] = c] /\ draft' = draft
      BY <1>11 DEF Begin
    <2>2. CASE v = w
      BY <2>1, <2>2 DEF KnowledgeInv, Types
    <2>3. CASE v # w
      BY <1>3, <2>1, <2>3 DEF KnowledgeInv, Types
    <2> QED
      BY <2>2, <2>3
  <1>12. ASSUME NEW w \in Workers, Acquire(w) PROVE Fine(v)
    <2>1. pc' = [pc EXCEPT ![w] = "derive"] /\ cmd' = cmd /\ draft' = draft
      BY <1>12 DEF Acquire
    <2>2. CASE v = w
      BY <2>1, <2>2 DEF KnowledgeInv, Types
    <2>3. CASE v # w
      BY <1>3, <2>1, <2>3 DEF KnowledgeInv, Types
    <2> QED
      BY <2>2, <2>3
  <1>13. ASSUME \/ UNCHANGED vars
                \/ \E commit \in Commits : NewCommit(commit)
                \/ \E file \in PhaseFiles : EditPhases(file)
         PROVE  Fine(v)
    BY <1>3, <1>13 DEF vars, NewCommit, EditPhases
  <1> HIDE DEF Fine
  <1> QED
    BY <1>6, <1>7, <1>8, <1>9, <1>10, <1>11, <1>12, <1>13 DEF Next, Step, BeginCi

(* What the command would derive from the directory as it is now.          *)
Again(c, now) ==
    BuildProjectState(HeadOf(commits, dir.state, c.report.source, TRUE),
                      dir.state, c.report, dir.state.repository, dir.phases, now)

(* The recorded head is the branch's, or only published; and nobody edited *)
(* phases.yaml.                                                            *)
NothingNew(c) ==
    /\ \/ c.report.source # NoCommit
       \/ dir.state.head = Len(commits)
       \/ OnlyPublished(commits, dir.state.head)
    /\ dir.state.phases = ComputePhases(dir.phases)

(* Whenever the command runs again it derives the state that is there, and *)
(* no event that is not there.                                             *)
SettledBy(c) ==
    NothingNew(c) =>
        \A now \in Nows :
            /\ Again(c, now) = dir.state
            /\ EventsOf(c.kind, dir.state, Again(c, now), c.report) \subseteq dir.events

RepeatsSettle == \A c : Repeatable(c, dir) => SettledBy(c)

LEMMA RepeatableSettles == RepeatsSettle
  <1>0. SUFFICES ASSUME NEW c, Repeatable(c, dir) PROVE SettledBy(c)
    BY DEF RepeatsSettle
  <1> SUFFICES ASSUME NothingNew(c), NEW now \in Nows
               PROVE  /\ Again(c, now) = dir.state
                      /\ EventsOf(c.kind, dir.state, Again(c, now), c.report) \subseteq dir.events
    BY DEF SettledBy
  <1>1. PICK s, r : s = dir.state /\ r = c.report
    OBVIOUS
  <1>2. HeadOf(commits, s, r.source, TRUE) = s.head
    BY <1>0, <1>1 DEF HeadOf, NothingNew, Repeatable
  <1>3. RunBlock(r.build, r, s.build, s.head, now) = s.build
    BY <1>0, <1>1 DEF RunBlock, Repeatable
  <1>4. RunBlock(r.test, r, s.test, s.head, now) = s.test
    BY <1>0, <1>1 DEF RunBlock, Repeatable
  <1>5. ComputePhases(dir.phases) = s.phases
    BY <1>1 DEF NothingNew
  <1>6. Again(c, now) =
           [repository |-> s.repository, head |-> s.head,
            generatedAt |-> Max({CommittedAt(s.head), s.build.at, s.test.at}),
            phases |-> s.phases, build |-> s.build, test |-> s.test,
            lastSuccessfulBuild |-> LastSuccessfulBuild(s, r, s.build),
            lastFailedBuild |-> LastFailedBuild(s, r, s.build), sync |-> "ok"]
    BY <1>1, <1>2, <1>3, <1>4, <1>5 DEF Again, BuildProjectState
  <1>7. Again(c, now) = s
    BY <1>0, <1>1, <1>6 DEF Repeatable
  <1> QED
    BY <1>0, <1>1, <1>7 DEF Repeatable

(* What a collection publishes is settled, for the same command line.      *)
SettlesStep ==
    \A w \in Workers : \A c :
        Publish(w) /\ c = cmd[w] /\ Collecting(c) => SettledBy(c)'

(* "Repeating identical Git/result identities preserves timestamps and     *)
(* event bytes" (tools/repo_knowledge/README.md): right after a collection *)
(* or sync is published, the same command derives the very same state,     *)
(* times included, at whatever moment it is repeated, and no new event,    *)
(* although other commands, commits and edits ran while it was prepared.   *)
THEOREM RepeatsAreStable == Spec => [][SettlesStep]_vars
  <1>1. Init => RepeatInv
    BY DEF Init, RepeatInv
  <1>2. KnowledgeInv /\ RepeatInv /\ [Next]_vars => [SettlesStep]_vars
    <2> SUFFICES ASSUME RepeatInv, NEW w \in Workers, NEW c, Publish(w), c = cmd[w],
                        Collecting(c)
                 PROVE  SettledBy(c)'
      BY DEF SettlesStep
    <2>1. Repeatable(c, dir')
      BY DEF Publish, RepeatInv
    <2>2. Repeatable(c, dir)'
      BY <2>1 DEF Repeatable
    <2>3. RepeatsSettle'
      BY RepeatableSettles, PTL
    <2> QED
      BY <2>2, <2>3 DEF RepeatsSettle
  <1> QED
    BY <1>1, <1>2, RepeatStep, KnowledgeSafety, PTL DEF Spec

(* A repeated command ends, or stages exactly the directory that is there, *)
(* which _transaction does not publish.                                    *)
RetryStep ==
    \A w \in Workers : \A now \in Nows :
        /\ Collect(w, now, TRUE) /\ dir.state.repository # NoName
        /\ NothingNew(cmd[w]) /\ SettledBy(cmd[w])
        => End(w) \/ (Staged(draft[w]) = dir)'

(* A repeated collection or sync publishes nothing: in a directory that    *)
(* its command line has settled it is refused or stages a copy equal to    *)
(* the directory.  "sync" records "not another event for every unchanged   *)
(* poll".                                                                  *)
THEOREM RetriesPublishNothing == Spec => [][RetryStep]_vars
  <1>1. KnowledgeInv /\ Rendered /\ [Next]_vars => [RetryStep]_vars
    <2> SUFFICES ASSUME KnowledgeInv, Rendered, NEW w \in Workers, NEW now \in Nows,
                        Collect(w, now, TRUE), dir.state.repository # NoName,
                        NothingNew(cmd[w]), SettledBy(cmd[w]), ~End(w)
                 PROVE  (Staged(draft[w]) = dir)'
      BY DEF RetryStep
    <2>1. PICK c : c = cmd[w]
      OBVIOUS
    <2>0. PICK head : head = HeadOf(commits, dir.state, c.report.source, TRUE)
      OBVIOUS
    <2>2. PICK state : state = BuildProjectState(head, dir.state, c.report, Identity(c),
                                                 dir.phases, now)
      OBVIOUS
    <2>3. PICK d : d = [Store!EmptyStore EXCEPT
                          !.state = state,
                          !.events = EventsOf(c.kind, dir.state, state, c.report)]
      OBVIOUS
    <2>4. /\ UNCHANGED <<commits, dir>> /\ ~Rejected(w, head, TRUE) /\ GoOn(w, "stage", d)
      BY <2>0, <2>1, <2>2, <2>3 DEF Collect
    <2>5. /\ d.state = state
          /\ d.events = EventsOf(c.kind, dir.state, state, c.report)
      BY <2>3 DEF Store!EmptyStore
    <2>6. Identity(c) = dir.state.repository
      <3>1. Identity(c) # NoName
        BY <2>1, <2>4 DEF Rejected
      <3>2. PICK r : /\ dir.state.repository \in {NoName, r}
                     /\ Identity(c) = r
        BY <3>1 DEF Identity
      <3> QED
        BY <3>2
    <2>7. state = Again(c, now)
      BY <2>0, <2>2, <2>6 DEF Again
    <2>8. d.state = dir.state /\ d.events \subseteq dir.events
      BY <2>1, <2>5, <2>7 DEF SettledBy
    <2>9. draft'[w] = d
      BY <2>4, GoneOn DEF Steps
    <2>10. dir = [phases |-> dir.phases, state |-> dir.state, status |-> RenderStatus(dir.state),
                  events |-> dir.events \cup d.events]
      <3>1. dir.events \cup d.events = dir.events
        BY <2>8
      <3> QED
        BY <3>1 DEF KnowledgeInv, DirOK, Whole, Rendered
    <2> QED
      BY <2>4, <2>8, <2>9, <2>10 DEF Staged
  <1>2. Spec => []Rendered
    BY SnapshotsConsistent, PTL
  <1> QED
    BY <1>1, <1>2, KnowledgeSafety, PTL DEF Spec
==============================================================================
