------------------------------ MODULE GatewayTail ------------------------------
(***************************************************************************)
(* The gateway log watcher of the agent (agent/watcher/gateway.go):         *)
(* unlike the session watcher it counts exactly what it has read, but it   *)
(* saves its offset before it hands over the last batch, gives a batch up  *)
(* after five seconds, and forgets its offset when a file appears.         *)
(*                                                                         *)
(* As in SessionTail a line is written in two halves, the units 2l-1 and   *)
(* 2l, and offsets count units.  ReadString returns what there is at the   *)
(* end of the file, so half a line is handed over like a line.             *)
(*                                                                         *)
(* The log may be rotated once, between two lines: "live" is renamed to    *)
(* "old", which may be removed later, and a new live file appears; or it   *)
(* is emptied in place.  A tail snapshot, marked as such for the server,   *)
(* takes a place in the channel and is not counted as handed over.         *)
(***************************************************************************)
EXTENDS Naturals, SequencesExt

CONSTANTS
  LineCount,   \* bound: lines ever written to the log
  BatchSize,   \* batchSize of readNewLines
  ChanCap,     \* capacity of gatewayEventChan
  MaxCrashes,  \* bound: how often the agent is killed
  Unknown,     \* a path that knownFiles does not hold
  Torn         \* contents of a state file that was truncated but not written

Paths == {"live", "old"}
Units == 1..(2 * LineCount)

ASSUME GatewayAssumption ==
  /\ LineCount \in Nat /\ MaxCrashes \in Nat
  /\ BatchSize \in Nat \ {0} /\ ChanCap \in Nat \ {0}
  /\ Unknown \notin Nat
  /\ Torn \notin [Paths -> Nat \cup {Unknown}]

VARIABLES
  written,  \* units written by the gateway so far
  base,     \* units that are not in the live file any more
  rotated,  \* what became of those: no, renamed, emptied, removed
  events,   \* fsnotify events not yet received, <<path, operation>>
  mode,     \* down, ready, read, emit, save, torn, last, tail
  started,  \* the scan is over: watchLoop and the main loop run
  scan,     \* what scanExisting has still to do: paths, then "state"
  rd,       \* the readNewLines call under way
  lines,    \* its batch: the units of each line
  known,    \* knownFiles
  saved,    \* the state file
  channel,  \* number of batches in gatewayEventChan
  crashes,  \* how often the agent was killed
  emitted,  \* history: how often each unit was handed over in this life
  ever,     \* history: units handed over in any life
  timedOut, \* history: units of a batch given up after five seconds
  killed,   \* history: units counted as read but not handed over in a crash
  shadow    \* history: last unit of the new file under an old offset

fileVars == <<written, base, rotated>>
history == <<emitted, ever, timedOut, killed, shadow>>
vars == <<written, base, rotated, events, mode, started, scan, rd, lines, known,
          saved, channel, crashes, emitted, ever, timedOut, killed, shadow>>

Modes == {"down", "ready", "read", "emit", "save", "torn", "last", "tail"}

\* The units a file holds are those after Begin and up to End.
Begin(p) == IF p = "live" THEN base ELSE 0
End(p) == IF p = "live" THEN written ELSE base
Exists(p) == p = "live" \/ rotated = "renamed"
Size(p) == End(p) - Begin(p)

Nowhere == [p \in Paths |-> Unknown]
NoRead == [path |-> "live", fd |-> "live", pos |-> 0, count |-> 0, again |-> FALSE]
UnitsOf(ls) == UNION {ls[i] : i \in DOMAIN ls}
Larger(a, b) == IF a >= b THEN a ELSE b
\* A Go map yields 0 for a key it does not hold.
Offset(k, p) == IF k = Torn \/ k[p] = Unknown THEN 0 ELSE k[p]

Init ==
  /\ written = 0 /\ base = 0 /\ rotated = "no"
  /\ events = <<>>
  /\ mode = "down" /\ started = FALSE /\ scan = <<>>
  /\ rd = NoRead /\ lines = <<>>
  /\ known = Nowhere /\ saved = Nowhere
  /\ channel = 0 /\ crashes = 0
  /\ emitted = [u \in Units |-> 0]
  /\ ever = {} /\ timedOut = {} /\ killed = {}
  /\ shadow = 0

-------------------------------------------------------------------------------
(* The gateway, the rotation of its log, and the file system, which merges   *)
(* an event into an equal one that is the last in the queue.                 *)

With(q, e) == IF q # <<>> /\ Last(q) = e THEN q ELSE Append(q, e)
Notify(q) == events' = IF mode = "down" THEN events ELSE q

Write ==
  /\ written < 2 * LineCount
  /\ written' = written + 1
  /\ Notify(With(events, <<"live", "write">>))
  /\ UNCHANGED <<base, rotated, mode, started, scan, rd, lines, known, saved,
                 channel, crashes, history>>

\* The live file starts anew; whatever was read of the old one is an offset
\* in the new one until something resets it.
NewFile ==
  /\ rotated = "no"
  /\ written > 0 /\ written % 2 = 0
  /\ base' = written
  /\ shadow' = written + Larger(rd.pos, Larger(Offset(known, "live"),
                                               Offset(saved, "live")))

\* An open file follows the rename.
Rename ==
  /\ NewFile
  /\ rotated' = "renamed"
  /\ rd' = [rd EXCEPT !.fd = "old"]
  /\ Notify(With(With(With(events, <<"live", "rename">>), <<"old", "create">>),
                 <<"live", "create">>))
  /\ UNCHANGED <<written, mode, started, scan, lines, known, saved, channel,
                 crashes, emitted, ever, timedOut, killed>>

Empty ==
  /\ NewFile
  /\ rotated' = "emptied"
  /\ Notify(With(events, <<"live", "write">>))
  /\ UNCHANGED <<written, mode, started, scan, rd, lines, known, saved, channel,
                 crashes, emitted, ever, timedOut, killed>>

\* A file that is open can still be read.
Unlink ==
  /\ rotated = "renamed"
  /\ rotated' = "removed"
  /\ Notify(With(events, <<"old", "remove">>))
  /\ UNCHANGED <<written, base, mode, started, scan, rd, lines, known, saved,
                 channel, crashes, history>>

-------------------------------------------------------------------------------
(* Start, scanExisting and watchLoop.                                        *)

\* loadState keeps nothing of a state file it cannot parse.
Start ==
  /\ mode = "down"
  /\ mode' = "ready"
  /\ known' = IF saved = Torn THEN Nowhere ELSE saved
  /\ scan' = (IF rotated = "renamed" THEN <<"live", "old">> ELSE <<"live">>)
             \o <<"state">>
  /\ emitted' = [u \in Units |-> 0]
  /\ UNCHANGED <<fileVars, events, started, rd, lines, saved, channel, crashes,
                 ever, timedOut, killed, shadow>>

\* readNewLines: a file that has become shorter is read from its beginning,
\* one that has the size of the offset is left alone, and `after' is what
\* comes next then; again tells whether a tail snapshot follows if nothing
\* is read.
Open(p, k, again, after) ==
  LET last == IF Size(p) < Offset(k, p) THEN 0 ELSE Offset(k, p)
  IN  /\ known' = k
      /\ IF ~Exists(p) \/ Size(p) = last
         THEN mode' = after /\ UNCHANGED rd
         ELSE /\ mode' = "read"
              /\ rd' = [path |-> p, fd |-> p, pos |-> last, count |-> 0,
                        again |-> again]

\* Walk comes to a file.  A file that is in the state file but has nothing
\* new is shown again.
ScanNext ==
  /\ mode = "ready" /\ scan # <<>> /\ Head(scan) # "state"
  /\ LET p == Head(scan)
         seen == known[p] # Unknown /\ Size(p) > 0
     IN  IF known[p] = Unknown \/ Offset(known, p) > Size(p)
         THEN Open(p, [known EXCEPT ![p] = 0], seen, "ready")
         ELSE Open(p, known, seen, IF seen /\ Exists(p) THEN "tail" ELSE "ready")
  /\ scan' = Tail(scan)
  /\ UNCHANGED <<fileVars, events, started, lines, saved, channel, crashes, history>>

\* The state is saved once more when the walk is over.
ScanEnds ==
  /\ mode = "ready" /\ scan = <<"state">>
  /\ mode' = "save"
  /\ scan' = <<>>
  /\ UNCHANGED <<fileVars, events, started, rd, lines, known, saved, channel,
                 crashes, history>>

\* go w.watchLoop(); the main loop begins to receive.
StartMain ==
  /\ mode = "ready" /\ ~started /\ scan = <<>>
  /\ started' = TRUE
  /\ UNCHANGED <<fileVars, events, mode, scan, rd, lines, known, saved, channel,
                 crashes, history>>

\* Mutant: the events that came in meanwhile are thrown away together.
NoticeFirst ==
  /\ mode = "ready" /\ started
  /\ events # <<>>
  /\ events' = <<>>
  /\ Open(Head(events)[1], known, FALSE, "ready")
  /\ UNCHANGED <<fileVars, started, scan, lines, saved, channel, crashes, history>>

\* Mutant: a create event does not reset the offset.
NoticeKeepsOffset ==
  /\ mode = "ready" /\ started
  /\ events # <<>>
  /\ events' = Tail(events)
  /\ Open(Head(events)[1], known, FALSE, "ready")
  /\ UNCHANGED <<fileVars, started, scan, lines, saved, channel, crashes, history>>

\* watchLoop receives an event.
Notice ==
  /\ mode = "ready" /\ started
  /\ events # <<>>
  /\ events' = Tail(events)
  /\ LET p == Head(events)[1]
         op == Head(events)[2]
     IN  CASE op = "write" -> Open(p, known, FALSE, "ready")
           [] op \in {"create", "rename"} ->
                Open(p, [known EXCEPT ![p] = 0], FALSE, "ready")
           [] op = "remove" -> /\ known' = [known EXCEPT ![p] = Unknown]
                               /\ mode' = "save" /\ UNCHANGED rd
  /\ UNCHANGED <<fileVars, started, scan, lines, saved, channel, crashes, history>>

-------------------------------------------------------------------------------
(* The loop of readNewLines.                                                 *)

\* The units that ReadString returns next, none at the end of the file.
NextLine ==
  LET u == Begin(rd.fd) + rd.pos + 1
  IN  {v \in {u, IF u % 2 = 1 THEN u + 1 ELSE u} : v <= End(rd.fd)}

ReadLine ==
  /\ mode = "read" /\ NextLine # {}
  /\ lines' = Append(lines, NextLine)
  /\ rd' = [rd EXCEPT !.pos = @ + Cardinality(NextLine), !.count = 1]
  /\ mode' = IF Len(lines') >= BatchSize THEN "emit" ELSE "read"
  /\ UNCHANGED <<fileVars, events, started, scan, known, saved, channel, crashes,
                 history>>

\* Mutant: the offset is saved but not kept.
EndReadForgets ==
  /\ mode = "read" /\ NextLine = {}
  /\ mode' = "save"
  /\ UNCHANGED <<fileVars, events, started, scan, rd, lines, known, saved, channel,
                 crashes, history>>

\* End of the file: the offset is what was read, and is saved at once.
EndRead ==
  /\ mode = "read" /\ NextLine = {}
  /\ known' = [known EXCEPT ![rd.path] = rd.pos]
  /\ mode' = "save"
  /\ shadow' = IF rd.fd # rd.path THEN Larger(shadow, base + rd.pos) ELSE shadow
  /\ UNCHANGED <<fileVars, events, started, scan, rd, lines, saved, channel,
                 crashes, emitted, ever, timedOut, killed>>

\* What follows once the last batch is out of hand.
AfterLast == IF rd.again /\ rd.count = 0 THEN "tail" ELSE "ready"

\* saveState: os.WriteFile truncates the state file, then writes it.
SaveTruncate ==
  /\ mode = "save"
  /\ saved' = Torn
  /\ mode' = "torn"
  /\ UNCHANGED <<fileVars, events, started, scan, rd, lines, known, channel,
                 crashes, history>>

SaveWrite ==
  /\ mode = "torn"
  /\ saved' = known
  /\ mode' = IF lines = <<>> THEN AfterLast ELSE "last"
  /\ rd' = IF mode' = "ready" THEN NoRead ELSE rd
  /\ UNCHANGED <<fileVars, events, started, scan, lines, known, channel, crashes,
                 history>>

\* emitLines is over: back to the loop, or to what called readNewLines.
Emitted ==
  /\ lines' = <<>>
  /\ mode' = IF mode = "emit" THEN "read" ELSE AfterLast
  /\ rd' = IF mode' = "ready" THEN NoRead ELSE rd
  /\ UNCHANGED <<fileVars, events, started, scan, known, saved, crashes, killed,
                 shadow>>

\* Mutant: the channel is thought to have no limit.
EmitAnyway ==
  /\ mode \in {"emit", "last"}
  /\ channel' = channel + 1
  /\ emitted' = [u \in Units |-> emitted[u] + IF u \in UnitsOf(lines) THEN 1 ELSE 0]
  /\ ever' = ever \cup UnitsOf(lines)
  /\ UNCHANGED timedOut
  /\ Emitted

\* emitLines: there is room in the channel ...
Emit ==
  /\ mode \in {"emit", "last"}
  /\ channel < ChanCap
  /\ channel' = channel + 1
  /\ emitted' = [u \in Units |-> emitted[u] + IF u \in UnitsOf(lines) THEN 1 ELSE 0]
  /\ ever' = ever \cup UnitsOf(lines)
  /\ UNCHANGED timedOut
  /\ Emitted

\* ... or there is none for five seconds.
GiveUp ==
  /\ mode \in {"emit", "last"}
  /\ channel = ChanCap
  /\ timedOut' = timedOut \cup UnitsOf(lines)
  /\ UNCHANGED <<channel, emitted, ever>>
  /\ Emitted

\* emitTailSnapshot: the last lines of the file once more.
TailSnapshot ==
  /\ mode = "tail"
  /\ IF channel < ChanCap THEN channel' = channel + 1 ELSE UNCHANGED channel
  /\ mode' = "ready" /\ rd' = NoRead
  /\ UNCHANGED <<fileVars, events, started, scan, lines, known, saved, crashes,
                 history>>

-------------------------------------------------------------------------------

\* The main loop receives an event to send it to the server.
Take ==
  /\ started /\ channel > 0
  /\ channel' = channel - 1
  /\ UNCHANGED <<fileVars, events, mode, started, scan, rd, lines, known, saved,
                 crashes, history>>

\* The agent is killed.
Crash ==
  /\ mode # "down" /\ crashes < MaxCrashes
  /\ crashes' = crashes + 1
  /\ mode' = "down" /\ started' = FALSE
  /\ scan' = <<>> /\ rd' = NoRead /\ events' = <<>> /\ lines' = <<>>
  /\ known' = Nowhere /\ channel' = 0
  /\ killed' = IF mode = "last" THEN killed \cup UnitsOf(lines) ELSE killed
  /\ UNCHANGED <<fileVars, saved, emitted, ever, timedOut, shadow>>

Next ==
  \/ Write \/ Rename \/ Empty \/ Unlink
  \/ Start \/ ScanNext \/ ScanEnds \/ StartMain \/ Notice
  \/ ReadLine \/ EndRead \/ SaveTruncate \/ SaveWrite
  \/ Emit \/ GiveUp \/ TailSnapshot
  \/ Take \/ Crash

\* The watcher and the main loop run when they can; the gateway need not
\* write, and nobody need restart the agent.
Fairness ==
  /\ WF_vars(ScanNext \/ ScanEnds \/ StartMain \/ Notice)
  /\ WF_vars(ReadLine \/ EndRead \/ SaveTruncate \/ SaveWrite)
  /\ WF_vars(Emit \/ GiveUp \/ TailSnapshot)
  /\ WF_vars(Take)

Spec == Init /\ [][Next]_vars
FairSpec == Spec /\ Fairness

-------------------------------------------------------------------------------
(* Properties.                                                               *)

\* Types; a batch and the channel stay within their limits.
TypeOK ==
  /\ written \in 0..(2 * LineCount) /\ base \in 0..written
  /\ rotated \in {"no", "renamed", "emptied", "removed"}
  /\ events \in Seq(Paths \X {"write", "create", "rename", "remove"})
  /\ mode \in Modes /\ started \in BOOLEAN
  /\ scan \in Seq(Paths \cup {"state"})
  /\ rd.path \in Paths /\ rd.fd \in Paths /\ rd.pos \in Nat
  /\ lines \in Seq(SUBSET Units) /\ Len(lines) <= BatchSize
  /\ known \in [Paths -> Nat \cup {Unknown}]
  /\ saved = Torn \/ saved \in [Paths -> Nat \cup {Unknown}]
  /\ channel \in 0..ChanCap /\ crashes \in 0..MaxCrashes

\* Nothing is being read and no event waits.
Quiet == mode = "ready" /\ started /\ events = <<>>

\* The reasons for which a unit is never handed over: its batch waited five
\* seconds in vain, or was counted as read when the agent was killed; an old
\* offset hides it, if the log was emptied in place, or was renamed while the
\* agent was down or had not yet looked (any kill is accepted for that); or
\* the file it was in is gone.
Excused(u) ==
  \/ u \in timedOut \cup killed
  \/ base < u /\ u <= shadow /\ (rotated = "emptied" \/ crashes > 0)
  \/ u <= base /\ rotated \in {"emptied", "removed"}

\* Nothing is skipped for any other reason, the half of a line included.
SkipsExcused ==
  Quiet => \A u \in 1..written : u \in ever \/ Excused(u)

\* In one life of the agent what is written is handed over once, whatever is
\* appended while it is read.  Only a rename repeats it: the old file is read
\* again under its new name, and each of the two events for the live file
\* makes its watcher begin again.
RepeatsBounded ==
  \A u \in 1..written :
    emitted[u] <= IF rotated \in {"no", "emptied"} THEN 1
                  ELSE IF u <= base THEN 2 ELSE 3

\* What is written is eventually handed over, or there is a reason why not,
\* unless the agent goes down.
EventuallyEmitted ==
  \A u \in Units :
    (u <= written) ~> (u \in ever \/ Excused(u) \/ mode = "down")
===============================================================================
