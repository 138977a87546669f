------------------------- MODULE MCThreadListeners -------------------------
EXTENDS ThreadListeners

\* A root thread is replaced while the old one is still in use; the races of a
\* sub-agent's thread with core need one object
MCKinds == {"root", "agent"}
MCLoads == [k \in MCKinds |-> IF k = "root" THEN 2 ELSE 1]

\* Two states are the same to TLC when they differ only in the watcher of an entry that
\* was removed and that no listener is about to check: nothing reads it
WatcherRead(e) == e = entry \/ \E l \in Listeners : listener[l] = "check" /\ serves[l].watch = e
Live == <<threadVars, entry, subs, [e \in Entries |-> WatcherRead(e) /\ watcher[e]], live, open,
          pending_thread_unloads, listenerVars, unload, todo, pc, loc, owed>>
=============================================================================
