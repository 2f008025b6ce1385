------------------------------ MODULE SessionTail ------------------------------
(***************************************************************************)
(* The session watcher of the agent (services/agent/watcher/watcher.go):   *)
(* it follows a transcript that another program appends to, sends each new *)
(* line to the channel of the main loop, and remembers in a state file how *)
(* far it has read.                                                        *)
(*                                                                         *)
(* A line is written in two halves, so that the file may be looked at with *)
(* a line half there: unit 2l-1 is a strict prefix of line l, unit 2l its  *)
(* rest with the newline.  Neither half is valid JSON.  Offsets count      *)
(* units.  A line of Long does not fit the buffer of bufio.Scanner, nor    *)
(* does either half of it.                                                 *)
(*                                                                         *)
(* The transcript may be archived once: "live" (X.jsonl) is renamed to     *)
(* "reset" (X.jsonl.reset.T) and a new, empty X.jsonl appears; both names  *)
(* contain ".jsonl" and belong to the same session.                        *)
(***************************************************************************)
EXTENDS Naturals, Sequences

CONSTANTS
  LineCount,   \* bound: lines ever written to the transcript
  Long,        \* the lines that exceed the limit of bufio.Scanner
  ChanCap,     \* capacity of sessionEventChan
  MaxCrashes,  \* bound: how often the agent is killed
  Torn         \* contents of a state file that was truncated but not written

Paths == {"live", "reset"}
Lines == 1..LineCount

ASSUME TailAssumption ==
  /\ LineCount \in Nat \ {0}
  /\ Long \subseteq Lines
  /\ ChanCap \in Nat \ {0}
  /\ MaxCrashes \in Nat
  /\ Torn \notin [Paths -> Nat]

VARIABLES
  written,   \* units written by the other program so far
  archived,  \* units that "reset" holds; 0 while there is no such file
  notified,  \* paths with an fsnotify event not yet received
  mode,      \* down, ready, read, save (before os.WriteFile), torn (within)
  started,   \* the scan is over: watchLoop and the main loop run
  scan,      \* paths scanExistingFiles has still to read
  rd,        \* the readNewLines call under way
  known,     \* knownFiles
  saved,     \* the state file
  channel,   \* sessionEventChan
  crashes,   \* how often the agent was killed
  sent,      \* history: how often each line was put in the channel in this life
  ever,      \* history: lines put in the channel in any life
  cut,       \* history: lines an offset was recorded in the middle of
  behind,    \* history: long lines, and lines passed over behind one
  shadow     \* history: last unit of the new file under an old offset

fileVars == <<written, archived>>
history == <<sent, ever, cut, behind, shadow>>
vars == <<written, archived, notified, mode, started, scan, rd, known, saved,
          channel, crashes, sent, ever, cut, behind, shadow>>

Modes == {"down", "ready", "read", "save", "torn"}

First(l) == 2 * l - 1
Last(l) == 2 * l
LineOf(u) == (u + 1) \div 2

\* The units a file holds are those after Begin and up to End.
Begin(p) == IF p = "live" THEN archived ELSE 0
End(p) == IF p = "live" THEN written ELSE archived
Size(p) == End(p) - Begin(p)
Complete(l) == Last(l) <= written

NoRead == [path |-> "live", fd |-> "live", base |-> 0, pos |-> 0, size |-> 0]
Nowhere == [p \in Paths |-> 0]

Init ==
  /\ written = 0 /\ archived = 0
  /\ notified = {}
  /\ mode = "down" /\ started = FALSE /\ scan = <<>>
  /\ rd = NoRead
  /\ known = Nowhere /\ saved = Nowhere
  /\ channel = <<>>
  /\ crashes = 0
  /\ sent = [l \in Lines |-> 0]
  /\ ever = {} /\ cut = {} /\ behind = {}
  /\ shadow = 0

Max(a, b) == IF a >= b THEN a ELSE b

-------------------------------------------------------------------------------
(* The program that owns the transcript, and the file system.                *)

Notify(ps) ==
  notified' = IF mode = "down" THEN notified ELSE notified \cup ps

Write ==
  /\ written < 2 * LineCount
  /\ written' = written + 1
  /\ Notify({"live"})
  /\ UNCHANGED <<archived, mode, started, scan, rd, known, saved, channel,
                 crashes, history>>

\* An open file follows the rename.
Archive ==
  /\ archived = 0
  /\ written > 0 /\ written % 2 = 0
  /\ archived' = written
  /\ rd' = [rd EXCEPT !.fd = "reset"]
  /\ shadow' = written + known["live"]
  /\ Notify(Paths)
  /\ UNCHANGED <<written, mode, started, scan, known, saved, channel, crashes,
                 sent, ever, cut, behind>>

-------------------------------------------------------------------------------
(* Start and scanExistingFiles, which run before the main loop.              *)

\* loadState keeps nothing of a state file it cannot parse.
Start ==
  /\ mode = "down"
  /\ mode' = "ready"
  /\ known' = IF saved = Torn THEN Nowhere ELSE saved
  /\ shadow' = IF archived > 0 THEN Max(shadow, archived + known'["live"])
                               ELSE shadow
  /\ scan' = IF archived > 0 THEN <<"live", "reset">> ELSE <<"live">>
  /\ sent' = [l \in Lines |-> 0]
  /\ UNCHANGED <<fileVars, notified, started, rd, saved, channel, crashes,
                 ever, cut, behind>>

\* readNewLines(p): os.Open and Stat; nothing to do unless the file is larger
\* than the offset.
Open(p) ==
  IF Size(p) <= known[p]
  THEN UNCHANGED <<mode, rd>>
  ELSE /\ mode' = "read"
       /\ rd' = [path |-> p, fd |-> p, base |-> Begin(p),
                 pos |-> Begin(p) + known[p], size |-> Size(p)]

ScanNext ==
  /\ mode = "ready" /\ ~started
  /\ scan # <<>>
  /\ Open(Head(scan))
  /\ scan' = Tail(scan)
  /\ UNCHANGED <<fileVars, notified, started, known, saved, channel, crashes,
                 history>>

\* w.ready = true; go w.watchLoop(); the main loop begins to receive.
StartMain ==
  /\ mode = "ready" /\ ~started
  /\ scan = <<>>
  /\ started' = TRUE
  /\ UNCHANGED <<fileVars, notified, mode, scan, rd, known, saved, channel,
                 crashes, history>>

\* Mutant: all the events that wait are taken for one.
NoticeOnce(p) ==
  /\ mode = "ready" /\ started
  /\ p \in notified
  /\ notified' = {}
  /\ Open(p)
  /\ UNCHANGED <<fileVars, started, scan, known, saved, channel, crashes,
                 history>>

\* watchLoop receives a Write or Create event.
Notice(p) ==
  /\ mode = "ready" /\ started
  /\ p \in notified
  /\ notified' = notified \ {p}
  /\ Open(p)
  /\ UNCHANGED <<fileVars, started, scan, known, saved, channel, crashes,
                 history>>

-------------------------------------------------------------------------------
(* The scanner loop of readNewLines.                                         *)

Next1 == LineOf(rd.pos + 1)
\* The scanner has the newline that ends the next token before it.
LineAhead == Last(Next1) <= End(rd.fd)

\* The rest of a line whose beginning an earlier call took: not JSON.
ReadFragment ==
  /\ mode = "read"
  /\ LineAhead /\ Next1 \notin Long
  /\ rd.pos % 2 = 1
  /\ rd' = [rd EXCEPT !.pos = @ + 1]
  /\ UNCHANGED <<fileVars, notified, mode, started, scan, known, saved,
                 channel, crashes, history>>

\* Mutant: the send does not wait for room.
SendLineAnyway ==
  /\ mode = "read"
  /\ LineAhead /\ Next1 \notin Long
  /\ rd.pos % 2 = 0
  /\ channel' = Append(channel, Next1)
  /\ rd' = [rd EXCEPT !.pos = @ + 2]
  /\ sent' = [sent EXCEPT ![Next1] = @ + 1]
  /\ ever' = ever \cup {Next1}
  /\ UNCHANGED <<fileVars, notified, mode, started, scan, known, saved,
                 crashes, cut, behind, shadow>>

\* parseAndSend: the send blocks while the channel is full.
SendLine ==
  /\ mode = "read"
  /\ LineAhead /\ Next1 \notin Long
  /\ rd.pos % 2 = 0
  /\ Len(channel) < ChanCap
  /\ channel' = Append(channel, Next1)
  /\ rd' = [rd EXCEPT !.pos = @ + 2]
  /\ sent' = [sent EXCEPT ![Next1] = @ + 1]
  /\ ever' = ever \cup {Next1}
  /\ UNCHANGED <<fileVars, notified, mode, started, scan, known, saved,
                 crashes, cut, behind, shadow>>

\* What the call leaves unread of what it counts as read.
Recorded == rd.base + rd.size
RecordMisses ==
  /\ cut' = IF Recorded % 2 = 1 THEN cut \cup {LineOf(Recorded)} ELSE cut
  /\ behind' = IF Next1 \in Long
               THEN behind \cup {l \in Lines : l >= Next1 /\ First(l) <= Recorded}
               ELSE behind
  /\ shadow' = IF rd.fd # rd.path THEN Max(shadow, archived + rd.size) ELSE shadow
  /\ UNCHANGED <<sent, ever>>

\* Mutant: the offset of a call that read nothing new is kept.
StopReadKeepsOffset ==
  /\ mode = "read"
  /\ ~LineAhead \/ Next1 \in Long
  /\ UNCHANGED known
  /\ mode' = "save"
  /\ RecordMisses
  /\ UNCHANGED <<fileVars, notified, started, scan, rd, saved, channel, crashes>>

\* Mutant: the offset is the size of the file when the scan ends.
StopReadStatsAgain ==
  /\ mode = "read"
  /\ ~LineAhead \/ Next1 \in Long
  /\ known' = [known EXCEPT ![rd.path] = Size(rd.path)]
  /\ mode' = "save"
  /\ RecordMisses
  /\ UNCHANGED <<fileVars, notified, started, scan, rd, saved, channel, crashes>>

\* The scanner stops at the end of the file (dropping a last line without
\* newline, which does not parse) or at a line too long for it; either way
\* the offset becomes the size seen when the file was opened.
StopRead ==
  /\ mode = "read"
  /\ ~LineAhead \/ Next1 \in Long
  /\ known' = [known EXCEPT ![rd.path] = rd.size]
  /\ mode' = "save"
  /\ RecordMisses
  /\ UNCHANGED <<fileVars, notified, started, scan, rd, saved, channel, crashes>>

\* saveState: os.WriteFile truncates the state file, then writes it.
SaveTruncate ==
  /\ mode = "save"
  /\ saved' = Torn
  /\ mode' = "torn"
  /\ UNCHANGED <<fileVars, notified, started, scan, rd, known, channel, crashes,
                 history>>

SaveWrite ==
  /\ mode = "torn"
  /\ saved' = known
  /\ mode' = "ready"
  /\ rd' = NoRead
  /\ UNCHANGED <<fileVars, notified, started, scan, known, channel, crashes,
                 history>>

-------------------------------------------------------------------------------

\* The main loop receives an event to send it to the server.
Take ==
  /\ started
  /\ channel # <<>>
  /\ channel' = Tail(channel)
  /\ UNCHANGED <<fileVars, notified, mode, started, scan, rd, known, saved,
                 crashes, history>>

\* The agent is killed, or exits on a signal without waiting for anything.
Crash ==
  /\ mode # "down"
  /\ crashes < MaxCrashes
  /\ crashes' = crashes + 1
  /\ mode' = "down" /\ started' = FALSE
  /\ scan' = <<>> /\ rd' = NoRead /\ notified' = {} /\ channel' = <<>>
  /\ known' = Nowhere
  /\ UNCHANGED <<fileVars, saved, history>>

Next ==
  \/ Write \/ Archive
  \/ Start \/ ScanNext \/ StartMain
  \/ \E p \in Paths : Notice(p)
  \/ ReadFragment \/ SendLine \/ StopRead
  \/ SaveTruncate \/ SaveWrite
  \/ Take \/ Crash

\* The watcher and the main loop are goroutines that run when they can; the
\* program that writes the transcript need not write, and nobody need
\* restart the agent.
Fairness ==
  /\ WF_vars(ScanNext \/ StartMain)
  /\ \A p \in Paths : WF_vars(Notice(p))
  /\ WF_vars(ReadFragment \/ SendLine \/ StopRead)
  /\ WF_vars(SaveTruncate \/ SaveWrite)
  /\ WF_vars(Take)

Spec == Init /\ [][Next]_vars
FairSpec == Spec /\ Fairness

-------------------------------------------------------------------------------
(* Properties.                                                               *)

\* Types; the channel stays within its capacity, and a call of readNewLines
\* never stands past the end of the file it has open.
TypeOK ==
  /\ written \in 0..(2 * LineCount) /\ archived \in 0..written
  /\ notified \subseteq Paths
  /\ mode \in Modes /\ started \in BOOLEAN
  /\ scan \in {<<>>, <<"live">>, <<"reset">>, <<"live", "reset">>}
  /\ rd \in [path : Paths, fd : Paths, base : Nat, pos : Nat, size : Nat]
  /\ mode = "read" => rd.pos <= End(rd.fd)
  /\ known \in [Paths -> Nat]
  /\ saved = Torn \/ saved \in [Paths -> Nat]
  /\ Len(channel) <= ChanCap
  /\ crashes \in 0..MaxCrashes

\* The reasons for which the watcher never sends a line that was written:
\* it is too long or was passed over behind one that is, an offset fell
\* inside it while it was being written, or the transcript was archived and
\* the offset of the old file hides it in the new one.
Excused(l) ==
  \/ l \in cut \cup behind
  \/ archived < First(l) /\ First(l) <= shadow

\* Nothing is being read and no event waits.
Quiet == mode = "ready" /\ started /\ notified = {}

\* The state file never runs ahead of the offsets in memory: a restart
\* rereads, it does not skip what the last life had not counted as read.
StateFileBehind ==
  mode # "down" /\ saved # Torn => \A p \in Paths : saved[p] <= known[p]

\* No line is skipped for any other reason: when the watcher rests, each
\* complete line was sent or is excused, whatever was appended while it read
\* and wherever it was killed and restarted.  It is a claim about the watcher:
\* sent is what it put in the channel, with all of which the agent dies.
SkipsExcused ==
  /\ Quiet => \A l \in Lines : Complete(l) => l \in ever \/ Excused(l)
  /\ StateFileBehind

\* In one life of the agent a line is sent at most twice, the second time
\* because it was appended behind the size that the call which first sent it
\* had seen; once more if the file it is in was renamed.
RepeatsBounded ==
  \A l \in Lines :
    sent[l] <= IF archived > 0 /\ Last(l) <= archived THEN 3 ELSE 2

\* The scan sends to the channel before anything receives from it.
StuckInScan == mode = "read" /\ ~started /\ Len(channel) = ChanCap

\* A complete line that is not excused is eventually sent, unless the agent
\* goes down or the scan at its start fills the channel.
EventuallySent ==
  \A l \in Lines :
    Complete(l) ~> (l \in ever \/ Excused(l) \/ mode = "down" \/ StuckInScan)
===============================================================================
