--------------------------- MODULE KnowledgeStore ----------------------------
(***************************************************************************)
(* What .repo promises its readers (tools/repo_knowledge/README.md and the *)
(* policy rules of core.build_project_state), whoever collects, syncs,     *)
(* commits, edits or crashes meanwhile: one value that is replaced as a    *)
(* whole, whose STATUS.md is the rendering of its state, and whose event   *)
(* history only grows and accounts for every build the state reports.      *)
(***************************************************************************)
EXTENDS ProjectState

VARIABLE store  \* phases.yaml, project.yaml, STATUS.md and events/

EmptyStore ==
    [phases |-> <<>>, state |-> NoState, status |-> RenderStatus(NoState),
     events |-> {}]

(* A build of the state is in the history with the result it had.          *)
Recorded(events, kind, statuses, b) ==
    b.commit # NoCommit =>
        \E e \in events :
            /\ e.kind = kind /\ e.status \in statuses
            /\ e.commit = b.commit /\ e.run = b.run /\ e.at = b.at

Accounted(s) ==
    /\ Recorded(s.events, "build", {s.state.build.status}, s.state.build)
    /\ Recorded(s.events, "test", {s.state.test.status}, s.state.test)
    /\ Recorded(s.events, "build", {"passed"}, s.state.lastSuccessfulBuild)
    /\ Recorded(s.events, "build", {"failed", "timed_out"}, s.state.lastFailedBuild)

OneContentPerId(events) ==
    \A d, e \in events : EventId(d) = EventId(e) => d = e

(* A remembered build is replaced only by the build that is reported now,  *)
(* and never forgotten.                                                    *)
Remembered(old, new, build) ==
    new # old =>
        new = [commit |-> build.commit, at |-> build.at, run |-> build.run]

Publish ==
    /\ store'.state # NoState
    /\ store'.status = RenderStatus(store'.state)
    /\ store.events \subseteq store'.events
    /\ OneContentPerId(store'.events)
    /\ Accounted(store')
    /\ store.state.repository \in {NoName, store'.state.repository}
    /\ Remembered(store.state.lastSuccessfulBuild,
                  store'.state.lastSuccessfulBuild, store'.state.build)
    /\ Remembered(store.state.lastFailedBuild,
                  store'.state.lastFailedBuild, store'.state.build)

EditPhases == store' = [store EXCEPT !.phases = store'.phases]

StoreSpec == store = EmptyStore /\ [][Publish \/ EditPhases]_store
==============================================================================
