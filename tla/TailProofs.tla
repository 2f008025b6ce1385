------------------------------ MODULE TailProofs ------------------------------
(***************************************************************************)
(* Proofs about SessionTail, for transcripts of any length, any set of     *)
(* long lines, any capacity of the channel and any number of crashes.      *)
(*                                                                         *)
(* The invariant says of every offset (known, saved, and the position of   *)
(* the call under way) that the lines that begin before it were sent or    *)
(* are excused; of every file, that it was read to its end, is being read  *)
(* to its end, or an event or the scan will have it read; and of every     *)
(* line how often it was sent, given the offsets it lies before.           *)
(***************************************************************************)
EXTENDS SessionTail, SequenceTheorems, TLAPS

Handled(l) == l \in ever \/ Excused(l)
\* The lines that begin after unit a, and not after unit b.
Covered(a, b) == \A l \in Lines : a < First(l) /\ First(l) <= b => Handled(l)

Types ==
  /\ TypeOK
  /\ archived % 2 = 0 /\ written \in Nat /\ archived \in Nat
  /\ channel \in Seq(Lines)
  /\ sent \in [Lines -> Nat]
  /\ ever \subseteq Lines /\ cut \subseteq Lines /\ behind \subseteq Lines
  /\ shadow \in Nat /\ (archived = 0 => shadow = 0)
  /\ started => scan = <<>> /\ mode # "down"

Reading == mode = "read"

\* The call under way, which a rename leaves with the old file.
ReadSound ==
  Reading =>
    /\ rd.fd = rd.path \/ (rd.path = "live" /\ rd.fd = "reset")
    /\ rd.fd = "reset" => archived > 0
    /\ rd.path = "reset" => rd.size = archived
    /\ rd.base = Begin(rd.fd)
    /\ known[rd.path] < rd.size /\ rd.base + known[rd.path] <= rd.pos
    /\ rd.pos <= End(rd.fd) /\ rd.base + rd.size <= End(rd.fd)
    /\ Covered(rd.base, rd.pos)

KnownCovered ==
  mode # "down" => \A p \in Paths : Covered(Begin(p), Begin(p) + known[p])

\* An offset of the file that was archived since is covered once it is loaded.
SavedCovered ==
  saved # Torn => /\ Covered(0, saved["reset"])
                  /\ archived = 0 => Covered(0, saved["live"])

InScan(p) ==
  scan \in {<<"live", "reset">>, IF p = "live" THEN <<"live">> ELSE <<"reset">>}

WillBeRead ==
  mode # "down" => \A p \in Paths :
    \/ p \in notified \/ InScan(p)
    \/ Size(p) <= known[p]
    \/ (Reading /\ rd.path = p /\ Size(p) <= rd.size)

FileOf(l) == IF Last(l) <= archived THEN "reset" ELSE "live"
BeingRead(l) == Reading /\ rd.path = "live" /\ rd.fd = FileOf(l)

\* A call that reads a file to which lines are appended sends some of them
\* that it does not count, and the next call sends these again.
SentOften ==
  mode # "down" => \A l \in Lines :
    /\ sent[l] > 0 => Complete(l)
    /\ BeingRead(l) =>
         sent[l] <= (IF First(l) <= rd.base + rd.size THEN 1 ELSE 0)
                    + (IF First(l) <= rd.pos THEN 1 ELSE 0)
    /\ ~BeingRead(l) /\ FileOf(l) = "live" =>
         sent[l] <= (IF First(l) <= archived + known["live"] THEN 2 ELSE 1)
    /\ ~BeingRead(l) /\ FileOf(l) = "reset" =>
         sent[l] <= (IF \/ First(l) <= known["reset"]
                        \/ Reading /\ rd.path = "reset" /\ First(l) <= rd.pos
                     THEN 3 ELSE 2)

Inv ==
  /\ Types /\ ReadSound /\ KnownCovered /\ SavedCovered /\ StateFileBehind
  /\ WillBeRead /\ SentOften

-------------------------------------------------------------------------------
(* Lines, units and files.                                                   *)

LEMMA UnitFacts ==
  ASSUME NEW u \in Nat
  PROVE  /\ LineOf(u + 1) \in Nat \ {0}
         /\ u % 2 \in {0, 1}
         /\ u % 2 = 0 => First(LineOf(u + 1)) = u + 1 /\ Last(LineOf(u + 1)) = u + 2
         /\ u % 2 = 1 => First(LineOf(u + 1)) = u /\ Last(LineOf(u + 1)) = u + 1
BY DEF LineOf, First, Last

LEMMA LineFacts ==
  /\ 2 * LineCount \in Nat
  /\ \A l \in Lines :
       /\ l \in Nat \ {0} /\ First(l) \in Nat \ {0} /\ Last(l) \in Nat
       /\ Last(l) = First(l) + 1 /\ First(l) % 2 = 1 /\ Last(l) <= 2 * LineCount
BY TailAssumption DEF Lines, First, Last

LEMMA FileFacts ==
  ASSUME Types
  PROVE  /\ "live" \in Paths /\ "reset" \in Paths
         /\ \A p \in Paths : /\ p = "live" \/ p = "reset"
                             /\ Begin(p) \in Nat /\ End(p) \in Nat /\ Size(p) \in Nat
                             /\ Begin(p) + Size(p) = End(p) /\ known[p] \in Nat
                             /\ End(p) <= written
         /\ Begin("live") = archived /\ End("live") = written
         /\ Begin("reset") = 0 /\ End("reset") = archived
         /\ archived <= written /\ written <= 2 * LineCount
         /\ rd.base \in Nat /\ rd.pos \in Nat /\ rd.size \in Nat
         /\ rd.path \in Paths /\ rd.fd \in Paths
<1>1. /\ written \in Nat /\ archived \in Nat /\ archived <= written
      /\ written <= 2 * LineCount
      /\ known \in [Paths -> Nat]
      /\ rd \in [path : Paths, fd : Paths, base : Nat, pos : Nat, size : Nat]
  BY LineFacts DEF Types, TypeOK
<1> QED BY <1>1 DEF Paths, Begin, End, Size

\* What was handled stays so.
LEMMA HandledKept ==
  ASSUME Types, ever \subseteq ever', cut \subseteq cut', behind \subseteq behind',
         shadow' \in Nat, shadow <= shadow', archived' = archived \/ archived = 0
  PROVE  /\ \A l \in Lines : Handled(l) => Handled(l)'
         /\ \A a, b : Covered(a, b) => Covered(a, b)'
<1>1. ASSUME NEW l \in Lines, Handled(l) PROVE Handled(l)'
  <2>1. shadow \in Nat /\ (archived = 0 => shadow = 0)
    BY DEF Types
  <2>2. First(l) \in Nat \ {0} /\ archived \in Nat
    BY LineFacts DEF Types
  <2>3. CASE l \in ever \/ l \in cut \cup behind
    BY <2>3 DEF Handled, Excused
  <2>4. CASE archived < First(l) /\ First(l) <= shadow
    BY <2>1, <2>2, <2>4 DEF Handled, Excused
  <2> QED BY <2>3, <2>4, <1>1 DEF Handled, Excused
<1> QED BY <1>1 DEF Covered

\* Offsets are still covered when neither they nor the files change.
LEMMA OffsetsKept ==
  ASSUME Inv, UNCHANGED <<archived, known, mode, saved>>,
         ever \subseteq ever', cut \subseteq cut', behind \subseteq behind',
         shadow' \in Nat, shadow <= shadow'
  PROVE  KnownCovered' /\ SavedCovered' /\ StateFileBehind'
<1>1. \A a, b : Covered(a, b) => Covered(a, b)'
  BY HandledKept DEF Inv
<1>2. KnownCovered'
  BY <1>1 DEF Inv, KnownCovered, Begin
<1>3. SavedCovered'
  BY <1>1 DEF Inv, SavedCovered
<1>4. StateFileBehind'
  BY DEF Inv, StateFileBehind
<1> QED BY <1>2, <1>3, <1>4

LEMMA InitInv == Init => Inv
<1> SUFFICES ASSUME Init PROVE Inv
  OBVIOUS
<1> USE DEF Init
<1>1. Types
  <2>1. TypeOK
    <3>1. NoRead \in [path : Paths, fd : Paths, base : Nat, pos : Nat, size : Nat]
      BY DEF NoRead, Paths
    <3>2. Nowhere \in [Paths -> Nat]
      BY DEF Nowhere
    <3>3. Len(<<>>) <= ChanCap /\ 0 \in 0..MaxCrashes /\ 0 \in 0..2 * LineCount /\ 0 \in 0..0
      BY TailAssumption, LineFacts, EmptySeq
    <3> QED BY <3>1, <3>2, <3>3 DEF TypeOK, Modes
  <2>2. <<>> \in Seq(Lines) /\ 0 % 2 = 0
    BY EmptySeq
  <2> QED BY <2>1, <2>2 DEF Types
<1>2. Nowhere["live"] = 0 /\ Nowhere["reset"] = 0
  BY DEF Nowhere, Paths
<1>3. \A b : b = 0 => Covered(0, b)
  BY LineFacts DEF Covered
<1>4. SavedCovered
  BY <1>2, <1>3 DEF SavedCovered
<1>5. ReadSound /\ KnownCovered /\ StateFileBehind /\ WillBeRead /\ SentOften
  BY DEF ReadSound, Reading, KnownCovered, StateFileBehind, WillBeRead, SentOften
<1> QED BY <1>1, <1>4, <1>5 DEF Inv

-------------------------------------------------------------------------------
(* The other program.                                                        *)

LEMMA WriteInv ==
  ASSUME Inv, Write
  PROVE  Inv'
<1>9. Types /\ ReadSound /\ WillBeRead /\ SentOften
  BY DEF Inv
<1>1. /\ written < 2 * LineCount /\ written' = written + 1
      /\ notified' = IF mode = "down" THEN notified ELSE notified \cup {"live"}
      /\ UNCHANGED <<archived, mode, started, scan, rd, known, saved, channel,
                     crashes, sent, ever, cut, behind, shadow>>
  BY DEF Write, Notify, history
<1>2. written \in Nat /\ written' \in Nat /\ written' <= 2 * LineCount /\ archived <= written'
  BY <1>1, <1>9, LineFacts, FileFacts DEF Types
<1>3. Types'
  <2>1. mode = "read" => rd.pos <= End(rd.fd)'
    <3>1. rd.pos \in Nat /\ End(rd.fd) \in Nat /\ End(rd.fd)' \in {End(rd.fd), written + 1}
      BY <1>1, <1>9, FileFacts DEF End
    <3>2. End(rd.fd) <= written
      BY <1>9, FileFacts
    <3>3. mode = "read" => rd.pos <= End(rd.fd)
      BY <1>9 DEF Types, TypeOK
    <3> QED BY <3>1, <3>2, <3>3, <1>2
  <2>2. notified' \subseteq Paths
    BY <1>1, <1>9 DEF Types, TypeOK, Paths
  <2> QED BY <2>1, <2>2, <1>1, <1>2, <1>9, LineFacts DEF Types, TypeOK
<1>4. ReadSound'
  <2>1. \A p \in Paths : Begin(p)' = Begin(p) /\ End(p) \in Nat /\ End(p)' \in Nat /\ End(p) <= End(p)'
    BY <1>1, <1>2, <1>9, FileFacts DEF Begin, End, Types
  <2>2. \A a, b : Covered(a, b)' <=> Covered(a, b)
    BY <1>1 DEF Covered, Handled, Excused
  <2>3. rd.pos \in Nat /\ rd.base + rd.size \in Nat /\ rd.fd \in Paths
    BY <1>9, FileFacts
  <2> QED BY <2>1, <2>2, <2>3, <1>1, <1>9 DEF ReadSound, Reading
<1>5. KnownCovered' /\ SavedCovered' /\ StateFileBehind'
  BY <1>1, <1>9, OffsetsKept DEF Types
<1>6. WillBeRead'
  <2>1. ASSUME mode # "down", NEW p \in Paths
        PROVE  \/ p \in notified' \/ InScan(p)'
               \/ Size(p)' <= known[p]
               \/ (Reading /\ rd.path = p /\ Size(p)' <= rd.size)
    <3>1. CASE p = "live"
      BY <3>1, <2>1, <1>1
    <3>2. CASE p = "reset"
      <4>1. Size(p)' = Size(p)
        BY <3>2, <1>1 DEF Size, Begin, End
      <4> QED BY <4>1, <2>1, <1>1, <1>9 DEF WillBeRead, InScan
    <3> QED BY <3>1, <3>2, <1>9, FileFacts
  <2> QED BY <2>1, <1>1 DEF WillBeRead, Reading
<1>7. SentOften'
  <2>1. \A l \in Lines : Complete(l) => Complete(l)'
    BY <1>1, <1>2, LineFacts DEF Complete
  <2>2. \A l \in Lines : FileOf(l)' = FileOf(l) /\ (BeingRead(l)' <=> BeingRead(l))
    BY <1>1 DEF FileOf, BeingRead, Reading
  <2> QED BY <2>1, <2>2, <1>1, <1>9 DEF SentOften, Reading
<1> QED BY <1>3, <1>4, <1>5, <1>6, <1>7 DEF Inv

LEMMA ArchiveInv ==
  ASSUME Inv, Archive
  PROVE  Inv'
<1>9. Types /\ ReadSound /\ KnownCovered /\ SavedCovered /\ StateFileBehind /\ SentOften
  BY DEF Inv
<1>1. /\ archived = 0 /\ written > 0 /\ written % 2 = 0
      /\ archived' = written /\ rd' = [rd EXCEPT !.fd = "reset"]
      /\ shadow' = written + known["live"]
      /\ notified' = IF mode = "down" THEN notified ELSE notified \cup Paths
      /\ UNCHANGED <<written, mode, started, scan, known, saved, channel, crashes,
                     sent, ever, cut, behind>>
  BY DEF Archive, Notify
<1>2. /\ written \in Nat /\ known["live"] \in Nat /\ shadow' \in Nat /\ shadow' > 0
      /\ shadow = 0 /\ known["reset"] \in Nat
  BY <1>1, <1>9, FileFacts DEF Types
<1>3. \A a, b : Covered(a, b) => Covered(a, b)'
  BY <1>1, <1>2, <1>9, HandledKept
<1>4. /\ rd'.path = rd.path /\ rd'.fd = "reset" /\ rd'.base = rd.base
      /\ rd'.pos = rd.pos /\ rd'.size = rd.size
      /\ rd' \in [path : Paths, fd : Paths, base : Nat, pos : Nat, size : Nat]
  BY <1>1, <1>9 DEF Types, TypeOK, Paths
<1>5. Reading => rd.path = "live" /\ rd.fd = "live"
  BY <1>1, <1>9, FileFacts DEF ReadSound
<1>6. Types'
  <2>1. mode = "read" => rd'.pos <= End(rd.fd)'
    BY <1>1, <1>4, <1>5, <1>9 DEF Types, TypeOK, End, Reading
  <2>2. notified' \subseteq Paths
    BY <1>1, <1>9 DEF Types, TypeOK, Paths
  <2>3. TypeOK'
    <3>1. written \in 0..2 * LineCount /\ written \in 0..written
      BY <1>2, <1>9 DEF Types, TypeOK
    <3> QED BY <3>1, <2>1, <2>2, <1>1, <1>4, <1>9 DEF Types, TypeOK
  <2> QED BY <2>3, <1>1, <1>2, <1>9 DEF Types
<1>7. ReadSound'
  <2>1. SUFFICES ASSUME Reading
                 PROVE  /\ archived' > 0 /\ rd.base = 0
                        /\ known["live"] < rd.size /\ rd.base + known["live"] <= rd.pos
                        /\ rd.pos <= written /\ rd.base + rd.size <= written
                        /\ Covered(rd.base, rd.pos)'
    BY <1>1, <1>4, <1>5 DEF ReadSound, Reading, Begin, End
  <2> QED BY <2>1, <1>1, <1>3, <1>5, <1>9 DEF ReadSound, Begin, End
<1>8. KnownCovered'
  <2>1. Covered(written, written + known["live"])'
    BY <1>1 DEF Covered, Handled, Excused
  <2>2. mode # "down" => Covered(0, 0 + known["reset"])'
    BY <1>1, <1>3, <1>9, FileFacts DEF KnownCovered
  <2>3. \A p \in Paths : p = "live" \/ p = "reset"
    BY DEF Paths
  <2> QED BY <2>1, <2>2, <2>3, <1>1 DEF KnownCovered, Begin
<1>10. SavedCovered' /\ StateFileBehind'
  BY <1>1, <1>2, <1>3, <1>9 DEF SavedCovered, StateFileBehind
<1>11. WillBeRead'
  BY <1>1 DEF WillBeRead
<1>12. SentOften'
  <2>1. ASSUME mode # "down", NEW l \in Lines
        PROVE  /\ sent[l] > 0 => Complete(l)'
               /\ BeingRead(l)' =>
                    sent[l] <= (IF First(l) <= rd.base + rd.size THEN 1 ELSE 0)
                               + (IF First(l) <= rd.pos THEN 1 ELSE 0)
               /\ ~BeingRead(l)' /\ FileOf(l)' = "live" =>
                    sent[l] <= (IF First(l) <= archived' + known["live"] THEN 2 ELSE 1)
               /\ ~BeingRead(l)' /\ FileOf(l)' = "reset" =>
                    sent[l] <= (IF \/ First(l) <= known["reset"]
                                   \/ Reading /\ rd.path = "reset" /\ First(l) <= rd.pos
                                THEN 3 ELSE 2)
    <3>1. sent[l] \in Nat /\ First(l) \in Nat \ {0} /\ Last(l) = First(l) + 1
      BY <1>9, LineFacts DEF Types
    <3>2. FileOf(l) = "live"
      BY <3>1, <1>1 DEF FileOf
    <3>3. (sent[l] > 0 => Complete(l)) /\ (Complete(l)' <=> Complete(l))
      BY <2>1, <1>1, <1>9 DEF SentOften, Complete
    <3>4. CASE FileOf(l)' = "live"
      <4>1. sent[l] = 0
        BY <3>1, <3>3, <3>4, <1>1, <1>2 DEF FileOf, Complete
      <4> QED BY <4>1, <3>3
    <3>5. CASE FileOf(l)' = "reset"
      <4>1. BeingRead(l)' <=> BeingRead(l)
        BY <3>2, <3>5, <1>1, <1>4, <1>5 DEF BeingRead, Reading
      <4>2. CASE BeingRead(l)
        BY <4>1, <4>2, <3>3, <3>5, <2>1, <1>9 DEF SentOften
      <4>3. CASE ~BeingRead(l)
        <5>1. sent[l] <= 2
          BY <4>3, <3>1, <3>2, <2>1, <1>9 DEF SentOften
        <5> QED BY <5>1, <4>1, <4>3, <3>1, <3>3, <3>5
      <4> QED BY <4>2, <4>3
    <3> QED BY <3>4, <3>5 DEF FileOf
  <2> QED BY <2>1, <1>1, <1>4 DEF SentOften, Reading
<1> QED BY <1>6, <1>7, <1>8, <1>10, <1>11, <1>12 DEF Inv

-------------------------------------------------------------------------------
(* Start and the scan.                                                       *)

LEMMA StartInv ==
  ASSUME Inv, Start
  PROVE  Inv'
<1>9. Types /\ SavedCovered
  BY DEF Inv
<1>1. /\ mode = "down" /\ mode' = "ready"
      /\ known' = IF saved = Torn THEN Nowhere ELSE saved
      /\ shadow' = IF archived > 0 THEN Max(shadow, archived + known'["live"]) ELSE shadow
      /\ scan' = IF archived > 0 THEN <<"live", "reset">> ELSE <<"live">>
      /\ sent' = [l \in Lines |-> 0]
      /\ UNCHANGED <<written, archived, notified, started, rd, saved, channel, crashes,
                     ever, cut, behind>>
  BY DEF Start, fileVars
<1>2. /\ known' \in [Paths -> Nat] /\ known'["live"] \in Nat /\ known'["reset"] \in Nat
      /\ Nowhere \in [Paths -> Nat] /\ Nowhere["live"] = 0 /\ Nowhere["reset"] = 0
      /\ shadow' \in Nat /\ shadow <= shadow' /\ (archived = 0 => shadow' = 0)
      /\ archived > 0 => archived + known'["live"] <= shadow'
  <2>1. Nowhere \in [Paths -> Nat] /\ Nowhere["live"] = 0 /\ Nowhere["reset"] = 0
    BY DEF Nowhere, Paths
  <2>2. known' \in [Paths -> Nat]
    BY <2>1, <1>1, <1>9 DEF Types, TypeOK
  <2>3. known'["live"] \in Nat /\ known'["reset"] \in Nat
    BY <2>2 DEF Paths
  <2>4. shadow \in Nat /\ archived \in Nat /\ (archived = 0 => shadow = 0)
    BY <1>9 DEF Types
  <2> QED BY <2>1, <2>2, <2>3, <2>4, <1>1 DEF Max
<1>3. started = FALSE => Types'
  BY <1>1, <1>2, <1>9 DEF Types, TypeOK, Modes
<1>4. \A l \in Lines : (Handled(l) => Handled(l)') /\ First(l) \in Nat \ {0}
  BY <1>1, <1>2, <1>9, HandledKept, LineFacts
<1>5. KnownCovered'
  <2>1. ASSUME NEW l \in Lines, First(l) <= 0 + known'["reset"] PROVE Handled(l)'
    <3>1. saved # Torn /\ known' = saved
      BY <2>1, <1>1, <1>2, <1>4
    <3> QED BY <3>1, <2>1, <1>1, <1>2, <1>4, <1>9 DEF SavedCovered, Covered
  <2>2. ASSUME NEW l \in Lines, archived < First(l), First(l) <= archived + known'["live"]
        PROVE  Handled(l)'
    <3>1. CASE archived = 0
      <4>1. saved # Torn /\ known' = saved
        BY <3>1, <2>2, <1>1, <1>2, <1>4
      <4> QED BY <4>1, <3>1, <2>2, <1>1, <1>2, <1>4, <1>9 DEF SavedCovered, Covered
    <3>2. CASE archived > 0
      <4>1. First(l) <= shadow'
        BY <3>2, <2>2, <1>2, <1>4, <1>9 DEF Types
      <4> QED BY <4>1, <2>2, <1>1 DEF Handled, Excused
    <3> QED BY <3>1, <3>2, <1>9 DEF Types
  <2> QED BY <2>1, <2>2, <1>1 DEF KnownCovered, Covered, Begin, Paths
<1>6. SavedCovered'
  BY <1>1, <1>4, <1>9 DEF SavedCovered, Covered
<1>7. StateFileBehind'
  <2>1. saved' # Torn => \A p \in Paths : saved'[p] <= known'[p]
    BY <1>1, <1>9 DEF Types, TypeOK
  <2> QED BY <2>1 DEF StateFileBehind
<1>8. WillBeRead'
  <2>1. InScan("live")'
    BY <1>1 DEF InScan
  <2>2. CASE archived > 0
    BY <2>1, <2>2, <1>1 DEF WillBeRead, InScan, Paths
  <2>3. CASE archived = 0
    <3>1. Size("reset")' <= known'["reset"]
      BY <2>3, <1>1, <1>2 DEF Size, Begin, End
    <3> QED BY <3>1, <2>1 DEF WillBeRead, Paths
  <2> QED BY <2>2, <2>3, <1>9 DEF Types
<1>10. SentOften'
  <2>1. \A l \in Lines : sent'[l] = 0
    BY <1>1
  <2> QED BY <2>1, <1>1 DEF SentOften, BeingRead, Reading
<1>11. ReadSound'
  BY <1>1 DEF ReadSound, Reading
<1>12. started = FALSE
  BY <1>1, <1>9 DEF Types, TypeOK
<1> QED BY <1>3, <1>5, <1>6, <1>7, <1>8, <1>10, <1>11, <1>12 DEF Inv

\* What readNewLines does before it reads, whoever called it.
LEMMA OpenInv ==
  ASSUME Inv, NEW p \in Paths, mode = "ready", Open(p),
         \A q \in Paths : q # p /\ (q \in notified \/ InScan(q)) =>
                            q \in notified' \/ InScan(q)',
         notified' \subseteq Paths,
         scan' \in {<<>>, <<"live">>, <<"reset">>, <<"live", "reset">>},
         started => scan' = <<>>,
         UNCHANGED <<fileVars, started, known, saved, channel, crashes, history>>
  PROVE  Inv'
<1>9. Types /\ KnownCovered /\ WillBeRead /\ SentOften
  BY DEF Inv
<1>1. UNCHANGED <<written, archived, started, known, saved, channel, crashes, sent,
                  ever, cut, behind, shadow>>
  BY DEF fileVars, history
<1>2. /\ Size(p) \in Nat /\ Begin(p) \in Nat /\ known[p] \in Nat
      /\ Begin(p) + Size(p) = End(p) /\ End(p) <= written
  BY <1>9, FileFacts
<1>3. \/ Size(p) <= known[p] /\ mode' = "ready" /\ rd' = rd
      \/ /\ Size(p) > known[p] /\ mode' = "read"
         /\ rd'.path = p /\ rd'.fd = p /\ rd'.base = Begin(p) /\ rd'.size = Size(p)
         /\ rd'.pos = Begin(p) + known[p]
         /\ rd' \in [path : Paths, fd : Paths, base : Nat, pos : Nat, size : Nat]
  BY <1>2 DEF Open
<1>4. Reading' => /\ Size(p) > known[p] /\ rd'.pos <= End(p)
                  /\ rd'.path = p /\ rd'.fd = p /\ rd'.base = Begin(p)
                  /\ rd'.size = Size(p) /\ rd'.pos = Begin(p) + known[p]
  BY <1>2, <1>3 DEF Reading
<1>5. Types'
  <2>1. mode' = "read" => rd'.pos <= End(rd.fd)'
    BY <1>1, <1>4 DEF Reading, End
  <2>2. mode' \in Modes /\ mode' # "down"
    BY <1>3 DEF Modes
  <2>3. rd' \in [path : Paths, fd : Paths, base : Nat, pos : Nat, size : Nat]
    BY <1>3, <1>9 DEF Types, TypeOK
  <2>4. TypeOK'
    BY <2>1, <2>2, <2>3, <1>1, <1>9 DEF Types, TypeOK
  <2> QED BY <2>2, <2>4, <1>1, <1>9 DEF Types
<1>6. ReadSound'
  <2>1. SUFFICES ASSUME Reading'
                 PROVE  /\ p = "reset" => archived > 0
                        /\ p = "reset" => Size(p) = archived
                        /\ known[p] < Size(p)
                        /\ Begin(p) + known[p] <= End(p) /\ Begin(p) + Size(p) <= End(p)
                        /\ Covered(Begin(p), Begin(p) + known[p])
    BY <1>1, <1>2, <1>4 DEF ReadSound, Begin, End, Covered, Handled, Excused
  <2>2. p = "reset" => Size(p) = archived
    BY <1>9 DEF Size, Begin, End, Types
  <2>3. Covered(Begin(p), Begin(p) + known[p])
    BY <1>9 DEF KnownCovered
  <2> QED BY <2>1, <2>2, <2>3, <1>2, <1>4
<1>7. KnownCovered'
  BY <1>1, <1>9 DEF KnownCovered, Covered, Handled, Excused, Begin
<1>8. SavedCovered' /\ StateFileBehind'
  BY <1>1 DEF Inv, SavedCovered, StateFileBehind, Covered, Handled, Excused
<1>10. WillBeRead'
  <2>1. ASSUME NEW q \in Paths
        PROVE  \/ q \in notified' \/ InScan(q)'
               \/ Size(q) <= known[q]
               \/ (Reading' /\ rd'.path = q /\ Size(q) <= rd'.size)
    <3>1. CASE q = p
      BY <3>1, <1>2, <1>3 DEF Reading
    <3>2. CASE q # p
      BY <3>2, <1>9 DEF WillBeRead, Reading
    <3> QED BY <3>1, <3>2
  <2>2. \A q \in Paths : Size(q)' = Size(q)
    BY <1>1 DEF Size, Begin, End
  <2> QED BY <2>1, <2>2, <1>1 DEF WillBeRead
<1>11. SentOften'
  <2>1. ASSUME NEW l \in Lines
        PROVE  /\ sent[l] > 0 => Complete(l)
               /\ BeingRead(l)' =>
                    sent[l] <= (IF First(l) <= rd'.base + rd'.size THEN 1 ELSE 0)
                               + (IF First(l) <= rd'.pos THEN 1 ELSE 0)
               /\ ~BeingRead(l)' /\ FileOf(l) = "live" =>
                    sent[l] <= (IF First(l) <= archived + known["live"] THEN 2 ELSE 1)
               /\ ~BeingRead(l)' /\ FileOf(l) = "reset" =>
                    sent[l] <= (IF \/ First(l) <= known["reset"]
                                   \/ Reading' /\ rd'.path = "reset" /\ First(l) <= rd'.pos
                                THEN 3 ELSE 2)
    <3>1. sent[l] \in Nat /\ First(l) \in Nat \ {0} /\ Last(l) = First(l) + 1
      BY <1>9, LineFacts DEF Types
    <3>2. /\ sent[l] > 0 => Complete(l)
          /\ FileOf(l) = "live" =>
               sent[l] <= (IF First(l) <= archived + known["live"] THEN 2 ELSE 1)
          /\ FileOf(l) = "reset" =>
               sent[l] <= (IF First(l) <= known["reset"] THEN 3 ELSE 2)
      BY <1>9 DEF SentOften, BeingRead, Reading
    <3>3. CASE BeingRead(l)'
      <4>1. p = "live" /\ FileOf(l) = "live" /\ Reading'
        BY <3>3, <1>1, <1>4 DEF BeingRead, FileOf
      <4>2. rd'.base + rd'.size = written /\ rd'.pos = archived + known["live"]
        BY <4>1, <1>2, <1>4 DEF Begin, End
      <4>3. sent[l] > 0 => First(l) <= written
        BY <3>1, <3>2, <1>9 DEF Complete, Types
      <4> QED BY <4>1, <4>2, <4>3, <3>1, <3>2, <3>3
    <3>4. CASE ~BeingRead(l)'
      BY <3>1, <3>2, <3>4
    <3> QED BY <3>3, <3>4
  <2>2. \A l \in Lines : (Complete(l)' <=> Complete(l)) /\ FileOf(l)' = FileOf(l)
    BY <1>1 DEF Complete, FileOf
  <2> QED BY <2>1, <2>2, <1>1 DEF SentOften
<1> QED BY <1>5, <1>6, <1>7, <1>8, <1>10, <1>11 DEF Inv

LEMMA ScanNextInv ==
  ASSUME Inv, ScanNext
  PROVE  Inv'
<1>1. /\ mode = "ready" /\ ~started /\ scan # <<>> /\ Open(Head(scan))
      /\ scan' = Tail(scan)
      /\ UNCHANGED <<fileVars, notified, started, known, saved, channel, crashes, history>>
  BY DEF ScanNext
<1>2. scan \in {<<"live">>, <<"reset">>, <<"live", "reset">>} /\ notified \subseteq Paths
  BY <1>1 DEF Inv, Types, TypeOK
<1>3. CASE scan = <<"live", "reset">>
  <2>1. Head(scan) = "live" /\ Tail(scan) = <<"reset">>
    BY <1>3
  <2>2. \A q \in Paths : q # "live" /\ (q \in notified \/ InScan(q)) =>
                           q \in notified' \/ InScan(q)'
    BY <2>1, <1>1 DEF Paths, InScan
  <2> QED BY <2>1, <2>2, <1>1, <1>2, OpenInv DEF Paths
<1>4. CASE scan = <<"live">>
  <2>1. Head(scan) = "live" /\ Tail(scan) = <<>>
    BY <1>4
  <2>2. \A q \in Paths : q # "live" /\ (q \in notified \/ InScan(q)) =>
                           q \in notified' \/ InScan(q)'
    BY <2>1, <1>1, <1>4 DEF Paths, InScan
  <2> QED BY <2>1, <2>2, <1>1, <1>2, OpenInv DEF Paths
<1>5. CASE scan = <<"reset">>
  <2>1. Head(scan) = "reset" /\ Tail(scan) = <<>>
    BY <1>5
  <2>2. \A q \in Paths : q # "reset" /\ (q \in notified \/ InScan(q)) =>
                           q \in notified' \/ InScan(q)'
    BY <2>1, <1>1, <1>5 DEF Paths, InScan
  <2> QED BY <2>1, <2>2, <1>1, <1>2, OpenInv DEF Paths
<1> QED BY <1>2, <1>3, <1>4, <1>5

LEMMA NoticeInv ==
  ASSUME Inv, NEW p \in Paths, Notice(p)
  PROVE  Inv'
<1>1. /\ mode = "ready" /\ started /\ notified' = notified \ {p} /\ Open(p) /\ scan' = scan
      /\ UNCHANGED <<fileVars, started, known, saved, channel, crashes, history>>
  BY DEF Notice
<1>2. scan = <<>> /\ notified \subseteq Paths
  BY <1>1 DEF Inv, Types, TypeOK
<1> QED BY <1>1, <1>2, OpenInv DEF InScan

LEMMA StartMainInv ==
  ASSUME Inv, StartMain
  PROVE  Inv'
<1>1. /\ mode = "ready" /\ scan = <<>> /\ started' = TRUE
      /\ UNCHANGED <<written, archived, notified, mode, scan, rd, known, saved, channel,
                     crashes, sent, ever, cut, behind, shadow>>
  BY DEF StartMain, fileVars, history
<1>2. Types'
  <2>1. TypeOK'
    BY <1>1 DEF Inv, Types, TypeOK, End
  <2> QED BY <2>1, <1>1 DEF Inv, Types
<1>3. ReadSound' /\ KnownCovered' /\ SavedCovered' /\ StateFileBehind'
  BY <1>1 DEF Inv, ReadSound, Reading, KnownCovered, SavedCovered, StateFileBehind,
              Covered, Handled, Excused, Begin, End
<1>4. WillBeRead' /\ SentOften'
  BY <1>1 DEF Inv, WillBeRead, InScan, Size, Begin, End, Reading, SentOften, BeingRead,
              FileOf, Complete
<1> QED BY <1>2, <1>3, <1>4 DEF Inv

-------------------------------------------------------------------------------
(* The scanner loop.                                                         *)

\* The line the scanner stands before, or in the middle of.
LEMMA NextFacts ==
  ASSUME Types
  PROVE  /\ Next1 \in Nat \ {0} /\ First(Next1) \in Nat /\ Last(Next1) \in Nat
         /\ rd.pos % 2 \in {0, 1}
         /\ rd.pos % 2 = 0 => First(Next1) = rd.pos + 1 /\ Last(Next1) = rd.pos + 2
         /\ rd.pos % 2 = 1 => First(Next1) = rd.pos /\ Last(Next1) = rd.pos + 1
         /\ LineAhead => Next1 \in Lines
<1>1. rd.pos \in Nat /\ End(rd.fd) \in Nat /\ End(rd.fd) <= 2 * LineCount
  <2>1. rd.pos \in Nat /\ rd.fd \in Paths /\ written <= 2 * LineCount /\ written \in Nat
    BY FileFacts DEF Types
  <2>2. End(rd.fd) \in Nat /\ End(rd.fd) <= written
    BY <2>1, FileFacts
  <2> QED BY <2>1, <2>2, LineFacts
<1>2. /\ Next1 \in Nat \ {0} /\ rd.pos % 2 \in {0, 1}
      /\ rd.pos % 2 = 0 => First(Next1) = rd.pos + 1 /\ Last(Next1) = rd.pos + 2
      /\ rd.pos % 2 = 1 => First(Next1) = rd.pos /\ Last(Next1) = rd.pos + 1
  BY <1>1, UnitFacts DEF Next1
<1>3. First(Next1) \in Nat /\ Last(Next1) \in Nat /\ Last(Next1) = 2 * Next1
  BY <1>2 DEF First, Last
<1>4. LineAhead => Next1 \in Lines
  BY <1>1, <1>2, <1>3, TailAssumption DEF LineAhead, Lines
<1> QED BY <1>2, <1>3, <1>4

LEMMA ReadFragmentInv ==
  ASSUME Inv, ReadFragment
  PROVE  Inv'
<1>9. Types /\ ReadSound /\ WillBeRead /\ SentOften
  BY DEF Inv
<1>1. /\ mode = "read" /\ LineAhead /\ rd.pos % 2 = 1
      /\ rd' = [rd EXCEPT !.pos = @ + 1]
      /\ UNCHANGED <<written, archived, notified, mode, started, scan, known, saved,
                     channel, crashes, sent, ever, cut, behind, shadow>>
  BY DEF ReadFragment, fileVars, history
<1>2. /\ rd'.path = rd.path /\ rd'.fd = rd.fd /\ rd'.base = rd.base
      /\ rd'.pos = rd.pos + 1 /\ rd'.size = rd.size
      /\ rd' \in [path : Paths, fd : Paths, base : Nat, pos : Nat, size : Nat]
  <2>1. rd \in [path : Paths, fd : Paths, base : Nat, pos : Nat, size : Nat]
    BY <1>9 DEF Types, TypeOK
  <2>2. rd.pos + 1 \in Nat
    BY <2>1
  <2> DEFINE next == rd.pos + 1
  <2>3. rd' = [rd EXCEPT !.pos = next] /\ next \in Nat
    BY <2>2, <1>1
  <2>4. next = rd.pos + 1
    OBVIOUS
  <2> HIDE DEF next
  <2>5. /\ rd'.path = rd.path /\ rd'.fd = rd.fd /\ rd'.base = rd.base
        /\ rd'.pos = next /\ rd'.size = rd.size
        /\ rd' \in [path : Paths, fd : Paths, base : Nat, pos : Nat, size : Nat]
    BY <2>1, <2>3
  <2> QED BY <2>4, <2>5
<1>3. rd.pos \in Nat /\ rd.base \in Nat /\ rd.size \in Nat /\ rd.pos + 1 <= End(rd.fd)
      /\ rd.pos + 1 # 1 /\ (rd.pos + 1) % 2 = 0 /\ rd.path \in Paths /\ known[rd.path] \in Nat
  BY <1>1, <1>9, NextFacts, FileFacts DEF LineAhead
<1>4. Types'
  <2>1. mode' = "read" => rd'.pos <= End(rd.fd)'
    BY <1>1, <1>2, <1>3 DEF End
  <2>2. TypeOK'
    BY <2>1, <1>1, <1>2, <1>9 DEF Types, TypeOK
  <2> QED BY <2>2, <1>1, <1>9 DEF Types
<1>5. \A l \in Lines : First(l) \in Nat /\ (First(l) <= rd.pos + 1 <=> First(l) <= rd.pos)
  BY <1>3, LineFacts
<1>6. ReadSound'
  <2>1. \A l \in Lines : rd.base < First(l) /\ First(l) <= rd.pos + 1 => Handled(l)'
    BY <1>1, <1>5, <1>9 DEF ReadSound, Reading, Covered, Handled, Excused
  <2>2. Covered(rd.base, rd.pos)'
    BY <2>1, <1>2 DEF Covered
  <2> QED BY <2>2, <1>1, <1>2, <1>3, <1>9 DEF ReadSound, Reading, Begin, End
<1>7. KnownCovered' /\ SavedCovered' /\ StateFileBehind'
  BY <1>1, <1>9, OffsetsKept DEF Types
<1>8. WillBeRead'
  BY <1>1, <1>2, <1>9 DEF WillBeRead, InScan, Size, Begin, End, Reading
<1>10. SentOften'
  <2>1. \A l \in Lines : /\ FileOf(l)' = FileOf(l) /\ Complete(l)' = Complete(l)
                         /\ BeingRead(l)' <=> BeingRead(l)
    BY <1>1, <1>2 DEF FileOf, BeingRead, Reading, Complete
  <2> QED BY <2>1, <1>1, <1>2, <1>5, <1>9 DEF SentOften, Reading
<1> QED BY <1>4, <1>6, <1>7, <1>8, <1>10 DEF Inv

LEMMA SendLineInv ==
  ASSUME Inv, SendLine
  PROVE  Inv'
<1>9. Types /\ ReadSound /\ WillBeRead /\ SentOften
  BY DEF Inv
<1>1. /\ mode = "read" /\ LineAhead /\ rd.pos % 2 = 0 /\ Len(channel) < ChanCap
      /\ channel' = Append(channel, Next1)
      /\ rd' = [rd EXCEPT !.pos = @ + 2]
      /\ sent' = [sent EXCEPT ![Next1] = @ + 1]
      /\ ever' = ever \cup {Next1}
      /\ UNCHANGED <<written, archived, notified, mode, started, scan, known, saved,
                     crashes, cut, behind, shadow>>
  BY DEF SendLine, fileVars
<1>2. /\ rd'.path = rd.path /\ rd'.fd = rd.fd /\ rd'.base = rd.base
      /\ rd'.pos = rd.pos + 2 /\ rd'.size = rd.size
      /\ rd' \in [path : Paths, fd : Paths, base : Nat, pos : Nat, size : Nat]
  <2>1. rd \in [path : Paths, fd : Paths, base : Nat, pos : Nat, size : Nat]
    BY <1>9 DEF Types, TypeOK
  <2>2. rd.pos + 2 \in Nat
    BY <2>1
  <2> DEFINE next == rd.pos + 2
  <2>3. rd' = [rd EXCEPT !.pos = next] /\ next \in Nat
    BY <2>2, <1>1
  <2>4. next = rd.pos + 2
    OBVIOUS
  <2> HIDE DEF next
  <2>5. /\ rd'.path = rd.path /\ rd'.fd = rd.fd /\ rd'.base = rd.base
        /\ rd'.pos = next /\ rd'.size = rd.size
        /\ rd' \in [path : Paths, fd : Paths, base : Nat, pos : Nat, size : Nat]
    BY <2>1, <2>3
  <2> QED BY <2>4, <2>5
<1>3. /\ rd.pos \in Nat /\ rd.base \in Nat /\ rd.size \in Nat
      /\ rd.path \in Paths /\ rd.fd \in Paths /\ known[rd.path] \in Nat
      /\ End(rd.fd) \in Nat /\ End(rd.fd) <= written /\ written \in Nat
      /\ Next1 \in Lines /\ First(Next1) = rd.pos + 1 /\ Last(Next1) = rd.pos + 2
      /\ rd.pos + 2 <= End(rd.fd)
  BY <1>1, <1>9, NextFacts, FileFacts DEF LineAhead, Types
<1>4. Types'
  <2>1. mode' = "read" => rd'.pos <= End(rd.fd)'
    BY <1>1, <1>2, <1>3 DEF End
  <2>2. channel' \in Seq(Lines) /\ Len(channel') = Len(channel) + 1 /\ Len(channel) \in Nat
    BY <1>1, <1>3, <1>9, AppendProperties, LenProperties DEF Types
  <2>3. Len(channel') <= ChanCap
    BY <2>2, <1>1, TailAssumption
  <2>4. sent' \in [Lines -> Nat] /\ ever' \subseteq Lines
    BY <1>1, <1>3, <1>9 DEF Types
  <2>5. TypeOK'
    BY <2>1, <2>3, <1>1, <1>2, <1>9 DEF Types, TypeOK
  <2> QED BY <2>2, <2>4, <2>5, <1>1, <1>9 DEF Types
<1>5. \A l \in Lines :
        /\ First(l) \in Nat
        /\ First(l) <= rd.pos + 2 => First(l) <= rd.pos \/ l = Next1
        /\ l # Next1 => (First(l) <= rd.pos + 2 <=> First(l) <= rd.pos)
  <2>1. ASSUME NEW l \in Lines, First(l) <= rd.pos + 2, ~(First(l) <= rd.pos)
        PROVE  l = Next1
    <3>1. l \in Nat /\ Next1 \in Nat /\ First(l) = 2 * l - 1 /\ rd.pos + 1 = 2 * Next1 - 1
      BY <1>3, LineFacts DEF First
    <3> QED BY <3>1, <2>1, <1>3
  <2> QED BY <2>1, <1>3, LineFacts
<1>6. \A a, b : Covered(a, b) => Covered(a, b)'
  <2>1. shadow' \in Nat /\ shadow <= shadow' /\ ever \subseteq ever'
    BY <1>1, <1>9 DEF Types
  <2> QED BY <2>1, <1>1, <1>9, HandledKept
<1>7. ReadSound'
  <2>1. Covered(rd.base, rd.pos)
    BY <1>1, <1>9 DEF ReadSound, Reading
  <2>2. Covered(rd.base, rd.pos)'
    <3>1. ASSUME NEW l \in Lines, rd.base < First(l), First(l) <= rd.pos + 2
          PROVE  Handled(l)'
      <4>1. CASE l = Next1
        BY <4>1, <1>1 DEF Handled
      <4>2. CASE First(l) <= rd.pos
        BY <4>2, <3>1, <2>1, <1>1 DEF Covered, Handled, Excused
      <4> QED BY <4>1, <4>2, <3>1, <1>5
    <3> QED BY <3>1, <1>2 DEF Covered
  <2> QED BY <2>2, <1>1, <1>2, <1>3, <1>9 DEF ReadSound, Reading, Begin, End
<1>8. KnownCovered' /\ SavedCovered' /\ StateFileBehind'
  <2>1. shadow' \in Nat /\ shadow <= shadow' /\ ever \subseteq ever'
    BY <1>1, <1>9 DEF Types
  <2> QED BY <2>1, <1>1, OffsetsKept
<1>10. WillBeRead'
  BY <1>1, <1>2, <1>9 DEF WillBeRead, InScan, Size, Begin, End, Reading
<1>11. SentOften'
  <2>1. \A l \in Lines : /\ FileOf(l)' = FileOf(l) /\ Complete(l)' = Complete(l)
                         /\ BeingRead(l)' <=> BeingRead(l)
    BY <1>1, <1>2 DEF FileOf, BeingRead, Reading, Complete
  <2>2. ASSUME NEW l \in Lines
        PROVE  /\ sent'[l] > 0 => Complete(l)
               /\ BeingRead(l) =>
                    sent'[l] <= (IF First(l) <= rd.base + rd.size THEN 1 ELSE 0)
                                + (IF First(l) <= rd.pos + 2 THEN 1 ELSE 0)
               /\ ~BeingRead(l) /\ FileOf(l) = "live" =>
                    sent'[l] <= (IF First(l) <= archived + known["live"] THEN 2 ELSE 1)
               /\ ~BeingRead(l) /\ FileOf(l) = "reset" =>
                    sent'[l] <= (IF \/ First(l) <= known["reset"]
                                    \/ Reading /\ rd.path = "reset" /\ First(l) <= rd.pos + 2
                                 THEN 3 ELSE 2)
    <3>0. /\ sent[l] > 0 => Complete(l)
          /\ BeingRead(l) =>
               sent[l] <= (IF First(l) <= rd.base + rd.size THEN 1 ELSE 0)
                          + (IF First(l) <= rd.pos THEN 1 ELSE 0)
          /\ ~BeingRead(l) /\ FileOf(l) = "live" =>
               sent[l] <= (IF First(l) <= archived + known["live"] THEN 2 ELSE 1)
          /\ ~BeingRead(l) /\ FileOf(l) = "reset" =>
               sent[l] <= (IF \/ First(l) <= known["reset"]
                              \/ Reading /\ rd.path = "reset" /\ First(l) <= rd.pos
                           THEN 3 ELSE 2)
      BY <1>1, <1>9 DEF SentOften
    <3>1. CASE l # Next1
      <4>1. sent'[l] = sent[l]
        BY <3>1, <1>1, <1>9 DEF Types
      <4> QED BY <4>1, <3>0, <3>1, <1>3, <1>5
    <3>2. CASE l = Next1
      <4>1. sent[l] \in Nat /\ sent'[l] = sent[l] + 1
        BY <3>2, <1>1, <1>3, <1>9 DEF Types
      <4>2. Complete(l) /\ First(l) = rd.pos + 1 /\ Last(l) = rd.pos + 2
        BY <3>2, <1>3 DEF Complete
      <4>3. CASE BeingRead(l)
        BY <4>1, <4>2, <4>3, <3>0, <1>3
      <4>4. CASE ~BeingRead(l)
        <5>1. rd.path = "reset" /\ rd.fd = "reset"
          <6>1. rd.path = "live" => rd.fd = FileOf(l)
            <7>1. rd.fd = "live" => archived < Last(l)
              <8>1. rd.base <= rd.pos /\ rd.base = Begin(rd.fd)
                BY <1>1, <1>3, <1>9 DEF ReadSound, Reading
              <8>2. Begin("live") = archived /\ archived \in Nat
                BY <1>9, FileFacts DEF Types
              <8> QED BY <8>1, <8>2, <4>2, <1>3
            <7>2. rd.fd = "reset" => Last(l) <= archived
              BY <4>2, <1>3, <1>9, FileFacts
            <7>3. archived \in Nat /\ Last(l) \in Nat
              BY <1>9, LineFacts DEF Types
            <7> QED BY <7>1, <7>2, <7>3, <1>3 DEF FileOf, Paths
          <6> QED BY <6>1, <4>4, <1>1, <1>3, <1>9 DEF BeingRead, ReadSound, Reading, Paths
        <5>2. FileOf(l) = "reset" /\ ~(First(l) <= known["reset"]) /\ ~(First(l) <= rd.pos)
          <6>1. /\ known["reset"] \in Nat /\ rd.base + known["reset"] <= rd.pos
                /\ rd.base \in Nat /\ End("reset") = archived
            BY <5>1, <1>1, <1>3, <1>9, FileFacts DEF ReadSound, Reading
          <6>2. FileOf(l) = "reset"
            BY <6>1, <5>1, <4>2, <1>3 DEF FileOf
          <6> QED BY <6>1, <6>2, <4>2, <1>3
        <5>3. sent[l] <= 2
          BY <5>2, <4>4, <3>0
        <5> QED BY <5>1, <5>2, <5>3, <4>1, <4>2, <4>4, <1>1, <1>3 DEF Reading
      <4> QED BY <4>3, <4>4
    <3> QED BY <3>1, <3>2
  <2> QED BY <2>1, <2>2, <1>1, <1>2 DEF SentOften, Reading
<1> QED BY <1>4, <1>7, <1>8, <1>10, <1>11 DEF Inv

\* Every line up to the recorded offset was sent before, or is excused now.
LEMMA RecordedCovered ==
  ASSUME Inv, StopRead
  PROVE  \A l \in Lines : rd.base < First(l) /\ First(l) <= Recorded => Handled(l)'
<1>9. Types /\ ReadSound
  BY DEF Inv
<1>1. /\ mode = "read" /\ (~LineAhead \/ Next1 \in Long)
      /\ cut' = (IF Recorded % 2 = 1 THEN cut \cup {LineOf(Recorded)} ELSE cut)
      /\ behind' = (IF Next1 \in Long
                    THEN behind \cup {l \in Lines : l >= Next1 /\ First(l) <= Recorded}
                    ELSE behind)
      /\ UNCHANGED <<archived, ever>>
  BY DEF StopRead, RecordMisses, fileVars
<1>2. /\ rd.pos \in Nat /\ Recorded \in Nat /\ Next1 \in Nat \ {0} /\ rd.fd \in Paths
      /\ First(Next1) \in Nat /\ First(Next1) <= rd.pos + 1 /\ Last(Next1) = First(Next1) + 1
  <2>1. rd.pos \in Nat /\ Recorded \in Nat /\ rd.fd \in Paths
    BY <1>9, FileFacts DEF Recorded
  <2> QED BY <2>1, <1>9, NextFacts
<1>3. End(rd.fd) \in Nat /\ Recorded <= End(rd.fd) /\ Covered(rd.base, rd.pos)
  BY <1>1, <1>2, <1>9, FileFacts DEF ReadSound, Reading, Recorded
<1>4. SUFFICES ASSUME NEW l \in Lines, rd.base < First(l), First(l) <= Recorded
               PROVE  Handled(l)'
  OBVIOUS
<1>5. l \in Nat \ {0} /\ First(l) \in Nat /\ First(l) = 2 * l - 1 /\ First(l) % 2 = 1
  BY LineFacts DEF First
<1>6. CASE First(l) <= rd.pos
  <2>1. l \in ever \/ l \in cut \cup behind
          \/ (archived < First(l) /\ First(l) <= shadow)
    BY <1>3, <1>4, <1>6 DEF Covered, Handled, Excused
  <2>2. /\ ever \subseteq ever' /\ cut \subseteq cut' /\ behind \subseteq behind'
        /\ archived' = archived /\ shadow' \in Nat /\ shadow <= shadow'
    <3>1. shadow' = IF rd.fd # rd.path THEN Max(shadow, archived + rd.size) ELSE shadow
      BY DEF StopRead, RecordMisses
    <3>2. shadow \in Nat /\ archived \in Nat /\ rd.size \in Nat
      BY <1>9, FileFacts DEF Types
    <3> QED BY <3>1, <3>2, <1>1 DEF Max
  <2>3. shadow \in Nat
    BY <1>9 DEF Types
  <2> QED BY <2>1, <2>2, <2>3, <1>5 DEF Handled, Excused
<1>7. CASE rd.pos < First(l) /\ Next1 \in Long
  <2>1. First(Next1) = 2 * Next1 - 1
    BY DEF First
  <2>2. l >= Next1
    BY <2>1, <1>2, <1>5, <1>7
  <2>3. l \in behind'
    BY <2>2, <1>1, <1>4, <1>7
  <2> QED BY <2>3 DEF Handled, Excused
<1>8. CASE rd.pos < First(l) /\ ~LineAhead
  <2>1. First(Next1) = 2 * Next1 - 1 /\ Last(Next1) = 2 * Next1
    BY DEF First, Last
  <2>2. ~(Last(Next1) <= End(rd.fd))
    BY <1>8 DEF LineAhead
  <2>3. l = Next1 /\ Recorded = First(l)
    BY <2>1, <2>2, <1>2, <1>3, <1>4, <1>5, <1>8
  <2>4. LineOf(Recorded) = l
    BY <2>3, <1>5 DEF LineOf
  <2>5. l \in cut'
    BY <2>3, <2>4, <1>1, <1>5
  <2> QED BY <2>5 DEF Handled, Excused
<1> QED BY <1>1, <1>2, <1>5, <1>6, <1>7, <1>8

LEMMA StopReadInv ==
  ASSUME Inv, StopRead
  PROVE  Inv'
<1>9. Types /\ ReadSound /\ KnownCovered /\ SavedCovered /\ StateFileBehind /\ WillBeRead
      /\ SentOften
  BY DEF Inv
<1>1. /\ mode = "read" /\ mode' = "save" /\ known' = [known EXCEPT ![rd.path] = rd.size]
      /\ cut' = (IF Recorded % 2 = 1 THEN cut \cup {LineOf(Recorded)} ELSE cut)
      /\ behind' = (IF Next1 \in Long
                    THEN behind \cup {l \in Lines : l >= Next1 /\ First(l) <= Recorded}
                    ELSE behind)
      /\ shadow' = (IF rd.fd # rd.path THEN Max(shadow, archived + rd.size) ELSE shadow)
      /\ UNCHANGED <<written, archived, notified, started, scan, rd, saved, channel,
                     crashes, sent, ever>>
  BY DEF StopRead, RecordMisses, fileVars
<1>2. /\ rd.path \in Paths /\ rd.fd \in Paths /\ rd.size \in Nat /\ rd.base \in Nat
      /\ rd.pos \in Nat /\ Recorded \in Nat /\ Recorded = rd.base + rd.size
      /\ archived \in Nat /\ known \in [Paths -> Nat] /\ known[rd.path] \in Nat
  <2>1. /\ rd.path \in Paths /\ rd.fd \in Paths /\ rd.size \in Nat /\ rd.base \in Nat
        /\ rd.pos \in Nat
    BY <1>9, FileFacts
  <2>2. archived \in Nat /\ known \in [Paths -> Nat]
    BY <1>9 DEF Types, TypeOK
  <2> QED BY <2>1, <2>2 DEF Recorded
<1>3. /\ rd.fd = rd.path \/ (rd.path = "live" /\ rd.fd = "reset")
      /\ rd.fd = "reset" => archived > 0
      /\ rd.path = "reset" => rd.size = archived
      /\ rd.base = Begin(rd.fd) /\ known[rd.path] < rd.size
      /\ Recorded <= End(rd.fd)
  BY <1>1, <1>9 DEF ReadSound, Reading, Recorded
<1>4. /\ known' \in [Paths -> Nat] /\ known'[rd.path] = rd.size
      /\ \A p \in Paths : p # rd.path => known'[p] = known[p]
      /\ \A p \in Paths : known[p] \in Nat /\ known'[p] \in Nat /\ known[p] <= known'[p]
  BY <1>1, <1>2, <1>3
<1>5. /\ shadow' \in Nat /\ shadow <= shadow' /\ (archived = 0 => shadow' = 0)
      /\ rd.fd # rd.path => archived + rd.size <= shadow'
  <2>1. shadow \in Nat /\ (archived = 0 => shadow = 0)
    BY <1>9 DEF Types
  <2> QED BY <2>1, <1>1, <1>2, <1>3 DEF Max
<1>6. Types'
  <2>1. cut' \subseteq Lines
    <3>1. Recorded % 2 = 1 => LineOf(Recorded) \in Lines
      <4>1. End(rd.fd) \in Nat /\ End(rd.fd) <= written /\ written <= 2 * LineCount
            /\ written \in Nat /\ LineCount \in Nat
        BY <1>2, <1>9, FileFacts, TailAssumption DEF Types
      <4>2. Recorded <= 2 * LineCount
        BY <4>1, <1>2, <1>3
      <4> QED BY <4>1, <4>2, <1>2 DEF LineOf, Lines
    <3> QED BY <3>1, <1>1, <1>9 DEF Types
  <2>2. behind' \subseteq Lines
    BY <1>1, <1>9 DEF Types
  <2>3. TypeOK'
    BY <1>1, <1>4, <1>9 DEF Types, TypeOK, Modes
  <2> QED BY <2>1, <2>2, <2>3, <1>1, <1>5, <1>9 DEF Types
<1>7. \A a, b : Covered(a, b) => Covered(a, b)'
  BY <1>1, <1>5, <1>9, HandledKept
<1>8. KnownCovered'
  <2>1. ASSUME NEW p \in Paths, NEW l \in Lines,
               Begin(p) < First(l), First(l) <= Begin(p) + known'[p]
        PROVE  Handled(l)'
    <3>1. CASE p # rd.path
      <4>1. Covered(Begin(p), Begin(p) + known[p])
        BY <1>1, <1>9 DEF KnownCovered
      <4>2. Handled(l)
        BY <4>1, <3>1, <2>1, <1>4 DEF Covered
      <4> QED BY <4>2, <1>1, <1>5, <1>9, HandledKept
    <3>2. CASE p = rd.path /\ rd.fd = rd.path
      BY <3>2, <2>1, <1>2, <1>3, <1>4, RecordedCovered
    <3>3. CASE p = rd.path /\ rd.fd # rd.path
      <4>1. Begin(p) = archived
        BY <3>3, <1>3 DEF Begin
      <4>2. archived < First(l) /\ First(l) <= shadow' /\ archived' = archived
        BY <4>1, <3>3, <2>1, <1>1, <1>2, <1>4, <1>5, LineFacts
      <4> QED BY <4>2 DEF Handled, Excused
    <3> QED BY <3>1, <3>2, <3>3
  <2>2. \A p \in Paths : Begin(p)' = Begin(p)
    BY <1>1 DEF Begin
  <2> QED BY <2>1, <2>2 DEF KnownCovered, Covered
<1>10. SavedCovered'
  BY <1>1, <1>7, <1>9 DEF SavedCovered
<1>11. StateFileBehind'
  <2>1. ASSUME saved # Torn, NEW p \in Paths PROVE saved[p] <= known'[p]
    <3>1. saved[p] \in Nat /\ saved[p] <= known[p]
      BY <2>1, <1>1, <1>9 DEF StateFileBehind, Types, TypeOK
    <3> QED BY <3>1, <1>4
  <2> QED BY <2>1, <1>1 DEF StateFileBehind
<1>12. WillBeRead'
  <2>1. ASSUME NEW p \in Paths
        PROVE  p \in notified \/ InScan(p) \/ Size(p) <= known'[p]
    <3>1. Size(p) \in Nat
      BY <1>9, FileFacts
    <3>2. \/ p \in notified \/ InScan(p)
          \/ Size(p) <= known[p]
          \/ (rd.path = p /\ Size(p) <= rd.size)
      BY <1>1, <1>9 DEF WillBeRead
    <3> QED BY <3>1, <3>2, <1>4
  <2>2. \A p \in Paths : Size(p)' = Size(p) /\ (InScan(p)' <=> InScan(p))
    BY <1>1 DEF Size, Begin, End, InScan
  <2> QED BY <2>1, <2>2, <1>1 DEF WillBeRead
<1>13. SentOften'
  <2>1. ASSUME NEW l \in Lines
        PROVE  /\ sent[l] > 0 => Complete(l)
               /\ FileOf(l) = "live" =>
                    sent[l] <= (IF First(l) <= archived + known'["live"] THEN 2 ELSE 1)
               /\ FileOf(l) = "reset" =>
                    sent[l] <= (IF First(l) <= known'["reset"] THEN 3 ELSE 2)
    <3>1. /\ sent[l] \in Nat /\ First(l) \in Nat \ {0} /\ Last(l) = First(l) + 1
          /\ "live" \in Paths /\ "reset" \in Paths
          /\ known["live"] \in Nat /\ known'["live"] \in Nat /\ known["live"] <= known'["live"]
          /\ known["reset"] \in Nat /\ known'["reset"] \in Nat
          /\ known["reset"] <= known'["reset"]
      BY <1>4, <1>9, LineFacts, FileFacts DEF Types
    <3>2. /\ sent[l] > 0 => Complete(l)
          /\ BeingRead(l) =>
               sent[l] <= (IF First(l) <= rd.base + rd.size THEN 1 ELSE 0)
                          + (IF First(l) <= rd.pos THEN 1 ELSE 0)
          /\ ~BeingRead(l) /\ FileOf(l) = "live" =>
               sent[l] <= (IF First(l) <= archived + known["live"] THEN 2 ELSE 1)
          /\ ~BeingRead(l) /\ FileOf(l) = "reset" =>
               sent[l] <= (IF \/ First(l) <= known["reset"]
                              \/ Reading /\ rd.path = "reset" /\ First(l) <= rd.pos
                           THEN 3 ELSE 2)
      BY <1>1, <1>9 DEF SentOften
    <3>3. CASE BeingRead(l) /\ FileOf(l) = "live"
      <4>1. rd.path = "live" /\ rd.base = archived
        BY <3>3, <1>3 DEF BeingRead, Begin
      <4> QED BY <4>1, <3>1, <3>2, <3>3, <1>2, <1>4
    <3>4. CASE BeingRead(l) /\ FileOf(l) = "reset"
      BY <3>1, <3>2, <3>4
    <3>5. CASE ~BeingRead(l) /\ FileOf(l) = "live"
      BY <3>1, <3>2, <3>5, <1>2
    <3>6. CASE ~BeingRead(l) /\ FileOf(l) = "reset"
      <4>1. Last(l) <= archived
        BY <3>6 DEF FileOf
      <4>2. rd.path = "reset" => First(l) <= known'["reset"]
        BY <4>1, <3>1, <1>2, <1>3, <1>4
      <4> QED BY <4>2, <3>1, <3>2, <3>6
    <3> QED BY <3>2, <3>3, <3>4, <3>5, <3>6 DEF FileOf
  <2>2. \A l \in Lines : FileOf(l)' = FileOf(l) /\ Complete(l)' = Complete(l)
    BY <1>1 DEF FileOf, Complete
  <2> QED BY <2>1, <2>2, <1>1 DEF SentOften, BeingRead, Reading
<1>14. ReadSound'
  BY <1>1 DEF ReadSound, Reading
<1> QED BY <1>6, <1>8, <1>10, <1>11, <1>12, <1>13, <1>14 DEF Inv

-------------------------------------------------------------------------------
(* The state file, the main loop and the end of a life.                      *)

LEMMA SaveTruncateInv ==
  ASSUME Inv, SaveTruncate
  PROVE  Inv'
<1>1. /\ mode = "save" /\ mode' = "torn" /\ saved' = Torn
      /\ UNCHANGED <<written, archived, notified, started, scan, rd, known, channel,
                     crashes, sent, ever, cut, behind, shadow>>
  BY DEF SaveTruncate, fileVars, history
<1>2. Types'
  <2>1. TypeOK'
    BY <1>1 DEF Inv, Types, TypeOK, Modes
  <2> QED BY <2>1, <1>1 DEF Inv, Types
<1>3. ReadSound' /\ KnownCovered' /\ SavedCovered' /\ StateFileBehind'
  BY <1>1 DEF Inv, ReadSound, Reading, KnownCovered, SavedCovered, StateFileBehind,
              Covered, Handled, Excused, Begin
<1>4. WillBeRead' /\ SentOften'
  BY <1>1 DEF Inv, WillBeRead, InScan, Size, Begin, End, Reading, SentOften, BeingRead,
              FileOf, Complete
<1> QED BY <1>2, <1>3, <1>4 DEF Inv

LEMMA SaveWriteInv ==
  ASSUME Inv, SaveWrite
  PROVE  Inv'
<1>9. Types /\ KnownCovered
  BY DEF Inv
<1>1. /\ mode = "torn" /\ mode' = "ready" /\ saved' = known /\ rd' = NoRead
      /\ UNCHANGED <<written, archived, notified, started, scan, known, channel,
                     crashes, sent, ever, cut, behind, shadow>>
  BY DEF SaveWrite, fileVars, history
<1>2. Types'
  <2>1. rd' \in [path : Paths, fd : Paths, base : Nat, pos : Nat, size : Nat]
    BY <1>1 DEF NoRead, Paths
  <2>2. TypeOK'
    BY <2>1, <1>1, <1>9 DEF Types, TypeOK, Modes
  <2> QED BY <2>2, <1>1, <1>9 DEF Types
<1>3. SavedCovered'
  <2>1. Covered(0, 0 + known["reset"]) /\ Covered(archived, archived + known["live"])
    BY <1>1, <1>9, FileFacts DEF KnownCovered
  <2>2. known["reset"] \in Nat /\ known["live"] \in Nat
    BY <1>9, FileFacts
  <2>3. Covered(0, known["reset"]) /\ (archived = 0 => Covered(0, known["live"]))
    BY <2>1, <2>2
  <2>4. \A a, b : Covered(a, b)' <=> Covered(a, b)
    BY <1>1 DEF Covered, Handled, Excused
  <2> QED BY <2>3, <2>4, <1>1 DEF SavedCovered
<1>4. StateFileBehind'
  <2>1. \A p \in Paths : known[p] \in Nat
    BY <1>9, FileFacts
  <2> QED BY <2>1, <1>1 DEF StateFileBehind
<1>5. ReadSound' /\ KnownCovered'
  BY <1>1 DEF Inv, ReadSound, Reading, KnownCovered, Covered, Handled, Excused, Begin
<1>6. WillBeRead' /\ SentOften'
  BY <1>1 DEF Inv, WillBeRead, InScan, Size, Begin, End, Reading, SentOften, BeingRead,
              FileOf, Complete
<1> QED BY <1>2, <1>3, <1>4, <1>5, <1>6 DEF Inv

LEMMA TakeInv ==
  ASSUME Inv, Take
  PROVE  Inv'
<1>1. /\ channel # <<>> /\ channel' = Tail(channel)
      /\ UNCHANGED <<written, archived, notified, mode, started, scan, rd, known, saved,
                     crashes, sent, ever, cut, behind, shadow>>
  BY DEF Take, fileVars, history
<1>2. Types'
  <2>1. channel \in Seq(Lines) /\ Len(channel) <= ChanCap
    BY DEF Inv, Types, TypeOK
  <2>2. channel' \in Seq(Lines) /\ Len(channel') = Len(channel) - 1 /\ Len(channel) \in Nat
    BY <2>1, <1>1, HeadTailProperties, LenProperties
  <2>3. Len(channel') <= ChanCap
    BY <2>1, <2>2, TailAssumption
  <2>4. TypeOK'
    BY <2>3, <1>1 DEF Inv, Types, TypeOK, End
  <2> QED BY <2>2, <2>4, <1>1 DEF Inv, Types
<1>3. ReadSound' /\ KnownCovered' /\ SavedCovered' /\ StateFileBehind'
  BY <1>1 DEF Inv, ReadSound, Reading, KnownCovered, SavedCovered, StateFileBehind,
              Covered, Handled, Excused, Begin, End
<1>4. WillBeRead' /\ SentOften'
  BY <1>1 DEF Inv, WillBeRead, InScan, Size, Begin, End, Reading, SentOften, BeingRead,
              FileOf, Complete
<1> QED BY <1>2, <1>3, <1>4 DEF Inv

LEMMA CrashInv ==
  ASSUME Inv, Crash
  PROVE  Inv'
<1>1. /\ crashes < MaxCrashes /\ crashes' = crashes + 1
      /\ mode' = "down" /\ started' = FALSE /\ scan' = <<>> /\ rd' = NoRead
      /\ notified' = {} /\ channel' = <<>> /\ known' = Nowhere
      /\ UNCHANGED <<written, archived, saved, sent, ever, cut, behind, shadow>>
  BY DEF Crash, fileVars, history
<1>2. Types'
  <2>1. rd' \in [path : Paths, fd : Paths, base : Nat, pos : Nat, size : Nat]
        /\ known' \in [Paths -> Nat]
    BY <1>1 DEF NoRead, Nowhere, Paths
  <2>2. channel' \in Seq(Lines) /\ Len(channel') <= ChanCap
    BY <1>1, EmptySeq, TailAssumption
  <2>3. crashes' \in 0..MaxCrashes
    BY <1>1, TailAssumption DEF Inv, Types, TypeOK
  <2>4. TypeOK'
    BY <2>1, <2>2, <2>3, <1>1 DEF Inv, Types, TypeOK, Modes
  <2> QED BY <2>2, <2>4, <1>1 DEF Inv, Types
<1>3. SavedCovered'
  BY <1>1 DEF Inv, SavedCovered, Covered, Handled, Excused
<1>4. ReadSound' /\ KnownCovered' /\ StateFileBehind' /\ WillBeRead' /\ SentOften'
  BY <1>1 DEF ReadSound, Reading, KnownCovered, StateFileBehind, WillBeRead, SentOften
<1> QED BY <1>2, <1>3, <1>4 DEF Inv

LEMMA StutterInv ==
  ASSUME Inv, UNCHANGED vars
  PROVE  Inv'
<1>1. UNCHANGED <<written, archived, notified, mode, started, scan, rd, known, saved,
                  channel, crashes, sent, ever, cut, behind, shadow>>
  BY DEF vars
<1>2. Types'
  <2>1. TypeOK'
    BY <1>1 DEF Inv, Types, TypeOK, End
  <2> QED BY <2>1, <1>1 DEF Inv, Types
<1>3. ReadSound' /\ KnownCovered' /\ SavedCovered' /\ StateFileBehind'
  BY <1>1 DEF Inv, ReadSound, Reading, KnownCovered, SavedCovered, StateFileBehind,
              Covered, Handled, Excused, Begin, End
<1>4. WillBeRead' /\ SentOften'
  BY <1>1 DEF Inv, WillBeRead, InScan, Size, Begin, End, Reading, SentOften, BeingRead,
              FileOf, Complete
<1> QED BY <1>2, <1>3, <1>4 DEF Inv

LEMMA StepInv == Inv /\ [Next]_vars => Inv'
<1> SUFFICES ASSUME Inv, [Next]_vars PROVE Inv'
  OBVIOUS
<1>1. CASE Write
  BY <1>1, WriteInv
<1>2. CASE Archive
  BY <1>2, ArchiveInv
<1>3. CASE Start
  BY <1>3, StartInv
<1>4. CASE ScanNext
  BY <1>4, ScanNextInv
<1>5. CASE StartMain
  BY <1>5, StartMainInv
<1>6. ASSUME NEW p \in Paths, Notice(p) PROVE Inv'
  BY <1>6, NoticeInv
<1>7. CASE ReadFragment
  BY <1>7, ReadFragmentInv
<1>8. CASE SendLine
  BY <1>8, SendLineInv
<1>9. CASE StopRead
  BY <1>9, StopReadInv
<1>10. CASE SaveTruncate
  BY <1>10, SaveTruncateInv
<1>11. CASE SaveWrite
  BY <1>11, SaveWriteInv
<1>12. CASE Take
  BY <1>12, TakeInv
<1>13. CASE Crash
  BY <1>13, CrashInv
<1>14. CASE UNCHANGED vars
  BY <1>14, StutterInv
<1> QED BY <1>1, <1>2, <1>3, <1>4, <1>5, <1>6, <1>7, <1>8, <1>9, <1>10, <1>11, <1>12,
           <1>13, <1>14 DEF Next

-------------------------------------------------------------------------------
(* The theorems.                                                             *)

\* The invariant holds of every reachable state.
THEOREM Invariance == Spec => []Inv
BY InitInv, StepInv, PTL DEF Spec

\* Types and bounds: the channel never holds more than its capacity, and
\* readNewLines never stands past the end of the file it has open.
THEOREM WithinFile == Spec => []TypeOK
<1>1. Inv => TypeOK
  BY DEF Inv, Types
<1> QED BY <1>1, Invariance, PTL

\* A line that was written whole is sent, or lies where the offsets of
\* readNewLines are known to hide it, whenever the watcher rests; and what
\* saveState leaves on disk is never ahead of the offsets in memory.
THEOREM NothingElseIsSkipped == Spec => []SkipsExcused
<1>1. Inv => SkipsExcused
  <2> SUFFICES ASSUME Inv PROVE SkipsExcused
    OBVIOUS
  <2>1. Types /\ KnownCovered /\ WillBeRead /\ StateFileBehind
    BY DEF Inv
  <2>2. ASSUME Quiet, NEW l \in Lines, Complete(l) PROVE Handled(l)
    <3>1. mode = "ready" /\ scan = <<>> /\ notified = {}
      BY <2>1, <2>2 DEF Quiet, Types
    <3>2. \A p \in Paths : Size(p) <= known[p] /\ Covered(Begin(p), Begin(p) + known[p])
      BY <3>1, <2>1 DEF WillBeRead, InScan, Reading, KnownCovered
    <3>3. /\ archived \in Nat /\ written \in Nat /\ known["live"] \in Nat
          /\ known["reset"] \in Nat
          /\ written - archived <= known["live"] /\ archived - 0 <= known["reset"]
          /\ Covered(archived, archived + known["live"]) /\ Covered(0, 0 + known["reset"])
      BY <3>2, <2>1, FileFacts DEF Types, Size, Begin, End
    <3>4. First(l) \in Nat \ {0} /\ First(l) <= written
      BY <2>1, <2>2, LineFacts DEF Complete, Types
    <3> QED BY <3>3, <3>4 DEF Covered
  <2> QED BY <2>1, <2>2 DEF SkipsExcused, Handled
<1> QED BY <1>1, Invariance, PTL

\* A restart may read lines again, but never starts beyond what the last life
\* had counted as read.
THEOREM RestartRereads == Spec => []StateFileBehind
<1>1. Inv => StateFileBehind
  BY DEF Inv
<1> QED BY <1>1, Invariance, PTL

\* In one life a line is sent twice at most, and once more when its file was
\* renamed, whatever is appended while readNewLines scans.
THEOREM RepeatsOnlyBehindSize == Spec => []RepeatsBounded
<1>1. Init => RepeatsBounded
  BY DEF Init, RepeatsBounded
<1>2. Inv /\ mode # "down" => RepeatsBounded
  <2> SUFFICES ASSUME Inv, mode # "down", NEW l \in Lines
               PROVE  sent[l] <= IF archived > 0 /\ Last(l) <= archived THEN 3 ELSE 2
    BY DEF RepeatsBounded
  <2>1. Types /\ SentOften
    BY DEF Inv
  <2>2. sent[l] \in Nat /\ archived \in Nat /\ Last(l) \in Nat \ {0}
    BY <2>1, LineFacts DEF Types
  <2>3. sent[l] <= 3 /\ (FileOf(l) = "live" => sent[l] <= 2)
    BY <2>1, <2>2 DEF SentOften, FileOf
  <2> QED BY <2>2, <2>3 DEF FileOf
<1>3. Inv /\ RepeatsBounded /\ [Next]_vars /\ Inv' => RepeatsBounded'
  <2> SUFFICES ASSUME Inv, RepeatsBounded, [Next]_vars, Inv' PROVE RepeatsBounded'
    OBVIOUS
  <2>1. CASE mode' # "down"
    <3>1. (Inv /\ mode # "down" => RepeatsBounded)'
      BY <1>2, PTL
    <3> QED BY <3>1, <2>1
  <2>2. CASE mode' = "down"
    <3>1. sent' = sent /\ (archived' = archived \/ archived = 0)
      BY <2>2 DEF Next, vars, Write, Archive, Start, ScanNext, StartMain, Notice, Open,
                  ReadFragment, SendLine, StopRead, SaveTruncate, SaveWrite, Take, Crash,
                  fileVars, history, RecordMisses
    <3>2. \A l \in Lines : sent[l] \in Nat
      BY DEF Inv, Types
    <3>3. CASE archived' = archived
      BY <3>1, <3>3 DEF RepeatsBounded
    <3>4. CASE archived = 0
      <4>1. \A l \in Lines : sent[l] <= 2
        BY <3>4 DEF RepeatsBounded
      <4> QED BY <4>1, <3>1, <3>2 DEF RepeatsBounded
    <3> QED BY <3>1, <3>3, <3>4
  <2> QED BY <2>1, <2>2
<1> QED BY <1>1, <1>3, Invariance, PTL DEF Spec
===============================================================================
