------------------------------ MODULE DevServe ------------------------------
(***************************************************************************)
(* internal/cli serve: the loop of `pola dev`.  It reads the Go sources to *)
(* generate the overlay, starts `go run`, which compiles them, starts a    *)
(* Poller over them, and restarts everything when the Poller reports a     *)
(* change.  It ends when the server ends by itself or on a signal.         *)
(***************************************************************************)
EXTENDS Poller

CONSTANT Polafile      \* Polafile.hcl, one of Files: read before the loop only

ASSUME PolafileAssumption == Polafile \in Files

VARIABLES writes,      \* writes so far
          pc,          \* where the loop is
          overlay,     \* the sources the overlay was generated from
          child,       \* the server process
          built,       \* the sources it was compiled from
          restartCh,   \* a restart is in the channel's buffer
          slipped      \* files with a change nobody will report: written after
                       \* autoload.Run and before the Poller's first look, or
                       \* deleted before a tick looked at them

serveVars == <<pc, overlay, child, built, restartCh>>
vars == <<disk, pollVars, writes, serveVars, slipped>>

Sources == [Files -> States]
Labels == {"overlay", "start", "watch", "select", "kill", "exited"}
Childs == {"none", "compiling", "running", "dead"}

Init == /\ disk \in [Files -> {0, 1}]
        /\ writes = 1
        /\ items = [f \in Files |-> Unwatched]
        /\ recent = <<>> /\ scanOrder = <<>> /\ scanIndex = 0
        /\ pc = "overlay" /\ child = "none" /\ restartCh = FALSE
        /\ overlay = disk /\ built = disk
        /\ slipped = {}

-----------------------------------------------------------------------------
(* The loop                                                                *)

\* autoload.Run, its options made from the Polafile runServe read at first;
\* when it fails the command ends.
Overlay == /\ pc = "overlay"
           /\ \/ pc' = "start" /\ overlay' = [disk EXCEPT ![Polafile] = overlay[Polafile]]
              \/ pc' = "exited" /\ UNCHANGED overlay
           /\ slipped' = {}
           /\ UNCHANGED <<disk, pollVars, writes, child, built, restartCh>>

StartChild == /\ pc = "start"
              /\ \/ pc' = "watch" /\ child' = "compiling"
                 \/ pc' = "exited" /\ UNCHANGED child
              /\ UNCHANGED <<disk, pollVars, writes, overlay, built, restartCh, slipped>>

\* A new channel, a new Poller and its first look at the files.
Watch == /\ pc = "watch"
         /\ pc' = "select"
         /\ restartCh' = FALSE
         /\ Snapshot
         /\ UNCHANGED <<disk, writes, overlay, child, built, slipped>>

Restart == /\ pc = "select"
           /\ restartCh
           /\ pc' = "kill"
           /\ UNCHANGED <<disk, pollVars, writes, overlay, child, built, restartCh, slipped>>

\* killProcessGroup and <-doneCh.
Killed == /\ pc = "kill"
          /\ pc' = "overlay"
          /\ child' = "none"
          /\ UNCHANGED <<disk, pollVars, writes, overlay, built, restartCh, slipped>>

\* The server ended by itself: so does the command.
Ended == /\ pc = "select"
         /\ child = "dead"
         /\ pc' = "exited"
         /\ UNCHANGED <<disk, pollVars, writes, overlay, child, built, restartCh, slipped>>

\* Ctrl+C.
Interrupted == /\ pc = "select"
               /\ pc' = "exited"
               /\ child' = "dead"
               /\ UNCHANGED <<disk, pollVars, writes, overlay, built, restartCh, slipped>>

Loop == Overlay \/ StartChild \/ Watch \/ Restart \/ Killed \/ Ended

-----------------------------------------------------------------------------
(* The server process, and the developer                                   *)

Compile == /\ child = "compiling"
           /\ \/ child' = "running" /\ built' = disk
              \/ child' = "dead" /\ UNCHANGED built
           /\ UNCHANGED <<disk, pollVars, writes, pc, overlay, restartCh, slipped>>

Crash == /\ child = "running"
         /\ child' = "dead"
         /\ UNCHANGED <<disk, pollVars, writes, pc, overlay, built, restartCh, slipped>>

\* Written before the Poller's first look, or gone before it was found.
Slips(f, new) == \/ pc \in {"start", "watch"}
                 \/ pc = "select" /\ f \notin Watched /\ new = Missing

\* A file is written, made or deleted.
Write == \E f \in Files, new \in {Missing, writes + 1} :
           /\ writes < MaxWrites
           /\ disk[f] # new
           /\ disk' = [disk EXCEPT ![f] = new]
           /\ writes' = writes + 1
           /\ slipped' = IF Slips(f, new) THEN slipped \cup {f} ELSE slipped
           /\ UNCHANGED <<pollVars, serveVars>>

-----------------------------------------------------------------------------
(* The Poller's ticks; onChange puts a restart in the channel if it has    *)
(* room.                                                                   *)

PollChange == /\ pc = "select"
              /\ PollFinds
              /\ restartCh' = TRUE
              /\ UNCHANGED <<disk, writes, pc, overlay, child, built, slipped>>

PollQuiet == /\ pc = "select"
             /\ PollNothing
             /\ UNCHANGED <<disk, writes, serveVars, slipped>>

RescanChange == /\ pc = "select"
                /\ RescanFinds
                /\ restartCh' = TRUE
                /\ UNCHANGED <<disk, writes, pc, overlay, child, built, slipped>>

RescanQuiet == /\ pc = "select"
               /\ RescanForgets
               /\ slipped' = slipped \cup {f \in Watched \ Collected : items[f] # Missing}
               /\ UNCHANGED <<disk, writes, serveVars>>

Poll == PollChange \/ PollQuiet
Rescan == RescanChange \/ RescanQuiet

-----------------------------------------------------------------------------
Next == \/ Loop \/ Interrupted
        \/ Compile \/ Crash
        \/ Write
        \/ Poll \/ Rescan

Spec == Init /\ [][Next]_vars

\* The loop goes on, the compiler comes to an end, and both tickers tick.
FairSpec == /\ Spec
            /\ WF_vars(Loop)
            /\ WF_vars(Compile)
            /\ WF_vars(Poll)
            /\ WF_vars(Rescan)

-----------------------------------------------------------------------------
(* Properties                                                              *)

\* Every variable has its type.
TypeOK == /\ PollerTypeOK
          /\ writes \in 1..MaxWrites
          /\ pc \in Labels /\ child \in Childs /\ restartCh \in BOOLEAN
          /\ overlay \in Sources /\ built \in Sources
          /\ slipped \subseteq Files

\* What the next ticks find: a watched file that changed, a file not watched.
Findable(f) == IF f \in Watched THEN Changed(f) ELSE f \in Collected

\* The overlay or the server is behind the file.  The Polafile's part in the
\* overlay is left out: no restart ever renews it.
Behind(f) == \/ f # Polafile /\ disk[f] # overlay[f]
             \/ child = "running" /\ disk[f] # built[f]

\* No change is lost between the loop and its Poller: while they wait, a file
\* the overlay or the running server is behind, and whose change did not slip
\* through, is one the next ticks find, unless a restart is due (serve's loop,
\* poll's checkPath, SetPaths keeping the states it has).
NothingMissed == pc = "select" /\ ~restartCh => \A f \in Files \ slipped : Behind(f) => Findable(f)

\* Once the developer stops editing, the command ends or settles with an
\* overlay and a server made from the files as they are, those that slipped
\* through excepted (the restart loop; onChange; the two tiers' rounds).
LatestRuns == <>[](\/ pc = "exited"
                   \/ child = "running" /\ \A f \in Files \ slipped : ~Behind(f))
=============================================================================
