--------------------------- MODULE AuditEditsProofs ---------------------------
(***************************************************************************)
(* Theorems about AuditEdits: what a verdict of verifyAuditLog means, for  *)
(* a log of any length, any number of edits between its appends and any    *)
(* content of the events.                                                  *)
(*                                                                         *)
(* HistoryInv says what the logger wrote: each line carries the digest of  *)
(* its own event and chains to an earlier line.  Events have distinct ids, *)
(* so a hash the logger wrote names one line (HashNamesLine).  StoredInv   *)
(* bounds what an edit can put on file: hashes are old ones, events may    *)
(* differ.  UneditedInv and DamageInv say which lines verify before the    *)
(* first edit and after it.                                                *)
(***************************************************************************)
EXTENDS AuditEdits, SequenceTheorems, FiniteSetTheorems, WellFoundedInduction, TLAPS

-----------------------------------------------------------------------------
(* Sequences and numbers.                                                  *)

(* A set of naturals with a member has a smallest one.                     *)
LEMMA SmallestNat ==
    ASSUME NEW T \in SUBSET Nat, T # {}
    PROVE  \E m \in T : \A n \in T : m <= n
  <1> DEFINE R == {ss \in Nat \X Nat : ss[1] < ss[2]}
  <1>1. IsWellFoundedOn(R, Nat)
    BY NatLessThanWellFounded DEF OpToRel
  <1>2. \A n, m \in Nat : n < m => <<n, m>> \in R
    OBVIOUS
  <1> HIDE DEF R
  <1>3. PICK m \in T : \A n \in T : ~(<<n, m>> \in R)
    BY <1>1, WFMin
  <1>4. ASSUME NEW n \in T
        PROVE  m <= n
    <2>1. n \in Nat /\ m \in Nat /\ ~(<<n, m>> \in R)
      BY <1>3
    <2>2. ~(n < m)
      BY <1>2, <2>1
    <2> QED
      BY <2>1, <2>2
  <1> QED
    BY <1>4

(* A function on an initial segment of the naturals is a sequence.         *)
LEMMA FunctionIsSeq ==
    ASSUME NEW S, NEW n \in Nat, NEW f \in [1 .. n -> S]
    PROVE  f \in Seq(S) /\ Len(f) = n
  <1>1. f \in Seq(S)
    BY SeqDef
  <1>2. DOMAIN f = 1 .. Len(f) /\ Len(f) \in Nat
    BY <1>1, LenProperties
  <1> QED
    BY <1>1, <1>2

-----------------------------------------------------------------------------
(* Lines.                                                                  *)

Ev == [id: Nat, args: Content, hash: Content]

Hashed == [id: Nat, args: Content] \cup {NoEvent}

Line == [ev: Ev \cup {NoEvent}, prev: Hashed \X Hashed, hash: Hashed \X Hashed]

(* A digest names the event it was computed over.                          *)
LEMMA DigestFacts ==
    ASSUME NEW ev \in Ev, NEW prev \in Hashed \X Hashed
    PROVE  /\ Canonical(ev) = [id |-> ev.id, args |-> ev.args]
           /\ Digest(ev, prev) \in Hashed \X Hashed
           /\ Digest(ev, prev)[1] = [id |-> ev.id, args |-> ev.args]
           /\ Digest(ev, prev)[2] = prev[1]
           /\ Digest(ev, prev)[1] # NoEvent
           /\ Digest(ev, prev) # NoHash
  <1>1. Canonical(ev) = [id |-> ev.id, args |-> ev.args]
    BY DEF Canonical, Ev
  <1>2. Canonical(ev) \in [id: Nat, args: Content]
    BY <1>1 DEF Ev
  <1>3. Canonical(ev) # NoEvent
    BY <1>2, NoEventAssumption
  <1> QED
    BY <1>1, <1>2, <1>3 DEF Digest, NoHash, Hashed

(* Null and garbage have their types.                                      *)
LEMMA GarbageType == NoHash \in Hashed \X Hashed /\ Garbage \in Line
  <1>1. NoHash \in Hashed \X Hashed
    BY DEF NoHash, Hashed
  <1> QED
    BY <1>1 DEF Garbage, Line

(* A line's verdict depends on the line and the one before it.             *)
LEMMA VerdictIsLocal ==
    ASSUME NEW lines, NEW more, NEW i,
           more[i] = lines[i],
           i = 1 \/ more[i - 1] = lines[i - 1]
    PROVE  LineVerifies(more, i) <=> LineVerifies(lines, i)
  BY DEF LineVerifies

-----------------------------------------------------------------------------
(* The invariants.                                                         *)

SequencesInv ==
    /\ stored \in Seq(Line)
    /\ written \in Seq(Line)
    /\ Len(stored) <= Len(written)
    /\ Len(written) <= MaxEvents
    /\ edits \in 0 .. MaxEdits
    /\ at \in 0 .. MaxEvents

(* What an edit can leave of a line: a hash that was written at some time, *)
(* and an event that may differ from the one written with it.              *)
MayBeStored(line) ==
    /\ line.prev \in KnownHash
    /\ line.hash \in KnownHash
    /\ line = Garbage \/ (line.ev \in Ev /\ line.ev.id \in 1 .. Len(written))

StoredInv == \A i \in 1 .. Len(stored) : MayBeStored(stored[i])

(* The lines the logger wrote: their ids count up, each hash is the digest *)
(* of the line, and each line starts a chain or chains to an earlier one.  *)
HistoryInv ==
    \A w \in 1 .. Len(written) :
        /\ written[w].ev \in Ev
        /\ written[w].ev.id = w
        /\ written[w].hash = Digest(written[w].ev, written[w].prev)
        /\ \/ written[w].prev = NoHash
           \/ \E v \in 1 .. w - 1 : written[w].prev = written[v].hash

UneditedInv ==
    edits = 0 => stored = written /\ \A i \in 1 .. Len(stored) : LineVerifies(stored, i)

(* After one edit, no line before it fails, and if any line fails then     *)
(* the edited one or the one after it does.                                *)
DamageInv ==
    edits = 1 =>
        /\ at >= 1
        /\ \A j \in 1 .. Len(stored) : j < at => LineVerifies(stored, j)
        /\ \/ \A j \in 1 .. Len(stored) : LineVerifies(stored, j)
           \/ \E j \in {at, at + 1} \cap 1 .. Len(stored) : ~LineVerifies(stored, j)

TypeInv == SequencesInv /\ StoredInv /\ HistoryInv

(* The domains of the two sequences, and their lines.                      *)
LEMMA SequenceFacts ==
    ASSUME SequencesInv
    PROVE  /\ Len(stored) \in Nat
           /\ Len(written) \in Nat
           /\ DOMAIN stored = 1 .. Len(stored)
           /\ DOMAIN written = 1 .. Len(written)
           /\ \A i \in 1 .. Len(stored) : stored[i] \in Line
           /\ \A w \in 1 .. Len(written) : written[w] \in Line
  BY LenProperties, ElementOfSeq DEF SequencesInv

(* A hash the logger wrote names the line it was written with: two of them *)
(* over the same event are one, and none is null.                          *)
LEMMA HashNamesLine ==
    ASSUME SequencesInv, HistoryInv
    PROVE  /\ \A v, w \in 1 .. Len(written) :
                written[v].hash[1] = written[w].hash[1] => v = w
           /\ \A w \in 1 .. Len(written) : written[w].hash[1] # NoEvent
           /\ \A g, h \in KnownHash : g[1] = h[1] => g = h
           /\ \A h \in KnownHash : h[1] = NoEvent <=> h = NoHash
  <1>1. ASSUME NEW w \in 1 .. Len(written)
        PROVE  /\ written[w].hash[1].id = w
               /\ written[w].hash[1] # NoEvent
    <2>1. PICK ev \in Ev, prev \in Hashed \X Hashed :
              /\ ev = written[w].ev
              /\ prev = written[w].prev
      BY SequenceFacts DEF HistoryInv, Line
    <2>2. written[w].hash = Digest(ev, prev) /\ ev.id = w
      BY <2>1 DEF HistoryInv
    <2>3. Digest(ev, prev)[1] = [id |-> ev.id, args |-> ev.args] /\ Digest(ev, prev)[1] # NoEvent
      BY DigestFacts
    <2> QED
      BY <2>2, <2>3
  <1>2. \A v, w \in 1 .. Len(written) : written[v].hash[1] = written[w].hash[1] => v = w
    BY <1>1
  <1>3. \A h : h \in KnownHash <=> h = NoHash \/ \E w \in 1 .. Len(written) : h = written[w].hash
    BY SequenceFacts DEF KnownHash
  <1>4. NoHash[1] = NoEvent
    BY DEF NoHash
  <1>5. ASSUME NEW g \in KnownHash, NEW h \in KnownHash, g[1] = h[1]
        PROVE  g = h
    BY <1>1, <1>2, <1>3, <1>4, <1>5
  <1>6. ASSUME NEW h \in KnownHash
        PROVE  h[1] = NoEvent <=> h = NoHash
    BY <1>1, <1>3, <1>4
  <1> QED
    BY <1>1, <1>2, <1>5, <1>6

-----------------------------------------------------------------------------
(* The steps.                                                              *)

(* append adds a line that verifies.                                       *)
Appends ==
    /\ ReadLast(stored).ok
    /\ \E line \in Line :
          /\ line = ChainedLine(line.ev, ReadLast(stored).hash)
          /\ line.ev \in Ev
          /\ line.ev.id = Len(written) + 1
          /\ stored' = Append(stored, line)
          /\ written' = Append(written, line)
    /\ Len(written) < MaxEvents
    /\ UNCHANGED <<edits, at>>

Replaces(i) ==
    /\ Len(stored') = Len(stored)
    /\ MayBeStored(stored'[i])
    /\ \A j \in 1 .. Len(stored) : j # i => stored'[j] = stored[j]

Deletes(i) ==
    /\ Len(stored') = Len(stored) - 1
    /\ \A j \in 1 .. Len(stored) - 1 : stored'[j] = IF j < i THEN stored[j] ELSE stored[j + 1]

Swaps(i) ==
    /\ i < Len(stored)
    /\ Len(stored') = Len(stored)
    /\ stored'[i] = stored[i + 1]
    /\ stored'[i + 1] = stored[i]
    /\ \A j \in 1 .. Len(stored) : j \notin {i, i + 1} => stored'[j] = stored[j]

(* An edit counts, and replaces one line, deletes one or swaps two.        *)
Edits(i) ==
    /\ edits < MaxEdits
    /\ edits' = edits + 1
    /\ at' = i
    /\ UNCHANGED written
    /\ stored' \in Seq(Line)
    /\ Replaces(i) \/ Deletes(i) \/ Swaps(i)

(* The hash append chains to is null, or one the logger wrote.             *)
LEMMA LastHashKnown ==
    ASSUME TypeInv, ReadLast(stored).ok
    PROVE  /\ ReadLast(stored).hash \in KnownHash
           /\ ReadLast(stored).hash \in Hashed \X Hashed
           /\ Len(stored) = 0 => ReadLast(stored).hash = NoHash
           /\ Len(stored) # 0 => /\ HasIntegrity(stored[Len(stored)])
                                 /\ ReadLast(stored).hash = stored[Len(stored)].hash
  <1>1. stored = <<>> <=> Len(stored) = 0
    BY EmptySeq DEF TypeInv, SequencesInv
  <1>2. CASE stored = <<>>
    BY <1>1, <1>2, GarbageType DEF ReadLast, KnownHash
  <1>3. CASE stored # <<>>
    <2>1. Len(stored) \in 1 .. Len(stored)
      BY <1>1, <1>3, SequenceFacts DEF TypeInv
    <2>2. MayBeStored(stored[Len(stored)]) /\ stored[Len(stored)] \in Line
      BY <2>1, SequenceFacts DEF TypeInv, StoredInv
    <2>3. ReadLast(stored) = [ok |-> HasIntegrity(stored[Len(stored)]),
                              hash |-> stored[Len(stored)].hash]
      BY <1>3 DEF ReadLast
    <2>4. HasIntegrity(stored[Len(stored)])
      BY <2>3
    <2> QED
      BY <1>1, <1>3, <2>2, <2>3, <2>4 DEF MayBeStored, Line
  <1> QED
    BY <1>2, <1>3

(* AppendEvent appends.                                                    *)
LEMMA AppendShape ==
    ASSUME TypeInv, AppendEvent
    PROVE  Appends
  <1>1. PICK body \in Content, keyed \in Content :
            LET line == ChainedLine(Event(Len(written) + 1, body, keyed), ReadLast(stored).hash)
            IN  stored' = Append(stored, line) /\ written' = Append(written, line)
    BY DEF AppendEvent
  <1> DEFINE ev   == Event(Len(written) + 1, body, keyed)
             line == ChainedLine(ev, ReadLast(stored).hash)
  <1>2. ev \in Ev /\ ev.id = Len(written) + 1
    BY SequenceFacts DEF TypeInv, Event, Ev
  <1>3. ReadLast(stored).hash \in Hashed \X Hashed
    BY LastHashKnown DEF AppendEvent
  <1> HIDE DEF ev
  <1>4. line \in Line /\ line.ev = ev /\ line = ChainedLine(line.ev, ReadLast(stored).hash)
    BY <1>2, <1>3, DigestFacts DEF ChainedLine, Line
  <1>5. stored' = Append(stored, line) /\ written' = Append(written, line)
    BY <1>1 DEF ev
  <1> HIDE DEF line
  <1> QED
    BY <1>2, <1>4, <1>5 DEF AppendEvent, Appends

(* A line that is put in place of another one.                             *)
LEMMA ReplaceShape ==
    ASSUME TypeInv, NEW i \in DOMAIN stored, NEW line \in Line, MayBeStored(line),
           Edit(i, [stored EXCEPT ![i] = line])
    PROVE  Edits(i)
  <1>1. stored \in Seq(Line) /\ i \in 1 .. Len(stored)
    BY SequenceFacts DEF TypeInv, SequencesInv
  <1>2. stored' = [stored EXCEPT ![i] = line] /\ UNCHANGED written
    BY DEF Edit
  <1>3. /\ stored' \in Seq(Line)
        /\ Len(stored') = Len(stored)
        /\ \A j \in 1 .. Len(stored) : stored'[j] = IF j = i THEN line ELSE stored[j]
    BY <1>1, <1>2, ExceptSeq
  <1>4. Replaces(i)
    BY <1>1, <1>3 DEF Replaces
  <1> QED
    BY <1>3, <1>4 DEF Edit, Edits

(* Every edit has one of the three shapes.                                 *)
LEMMA EditShape ==
    ASSUME TypeInv, NEW i \in DOMAIN stored,
           \/ EditContent(i) \/ EditHashKeyed(i) \/ EditPreviousHash(i) \/ EditHash(i)
           \/ DeleteLine(i) \/ SwapLines(i) \/ RestoreLine(i) \/ GarbleLine(i)
    PROVE  i \in 1 .. Len(stored) /\ Edits(i)
  <1>1. /\ i \in 1 .. Len(stored)
        /\ stored \in Seq(Line)
        /\ stored \in [1 .. Len(stored) -> Line]
        /\ Len(stored) \in Nat
        /\ stored[i] \in Line
        /\ MayBeStored(stored[i])
    BY SequenceFacts, LenProperties DEF TypeInv, SequencesInv, StoredInv
  <1>2. Parses(stored[i]) => stored[i].ev \in Ev /\ stored[i].ev.id \in 1 .. Len(written)
    BY <1>1 DEF MayBeStored, Parses
  <1>3. \A h \in KnownHash : h \in Hashed \X Hashed
    BY SequenceFacts, GarbageType DEF KnownHash, TypeInv, Line
  <1>4. ASSUME NEW ev \in Ev, Parses(stored[i]), ev.id = stored[i].ev.id,
               Edit(i, [stored EXCEPT ![i].ev = ev])
        PROVE  Edits(i)
    <2> DEFINE line == [stored[i] EXCEPT !.ev = ev]
    <2>1. line \in Line /\ line.ev = ev /\ line.prev = stored[i].prev /\ line.hash = stored[i].hash
      BY <1>1 DEF Line
    <2>2. [stored EXCEPT ![i].ev = ev] = [stored EXCEPT ![i] = line]
      OBVIOUS
    <2> HIDE DEF line
    <2>3. MayBeStored(line)
      BY <1>1, <1>2, <1>4, <2>1 DEF MayBeStored
    <2> QED
      BY <1>4, <2>1, <2>2, <2>3, ReplaceShape
  <1>5. CASE EditContent(i)
    <2>1. PICK body \in Content : Edit(i, [stored EXCEPT ![i].ev.args = body])
      BY <1>5 DEF EditContent
    <2> DEFINE ev == [stored[i].ev EXCEPT !.args = body]
    <2>2. Parses(stored[i]) /\ ev \in Ev /\ ev.id = stored[i].ev.id
      BY <1>2, <1>5 DEF EditContent, Ev
    <2>3. [stored EXCEPT ![i].ev.args = body] = [stored EXCEPT ![i].ev = ev]
      OBVIOUS
    <2> HIDE DEF ev
    <2> QED
      BY <1>4, <2>1, <2>2, <2>3
  <1>6. CASE EditHashKeyed(i)
    <2>1. PICK keyed \in Content : Edit(i, [stored EXCEPT ![i].ev.hash = keyed])
      BY <1>6 DEF EditHashKeyed
    <2> DEFINE ev == [stored[i].ev EXCEPT !.hash = keyed]
    <2>2. Parses(stored[i]) /\ ev \in Ev /\ ev.id = stored[i].ev.id
      BY <1>2, <1>6 DEF EditHashKeyed, Ev
    <2>3. [stored EXCEPT ![i].ev.hash = keyed] = [stored EXCEPT ![i].ev = ev]
      OBVIOUS
    <2> HIDE DEF ev
    <2> QED
      BY <1>4, <2>1, <2>2, <2>3
  <1>7. CASE EditPreviousHash(i)
    <2>1. PICK h \in KnownHash : Edit(i, [stored EXCEPT ![i].prev = h])
      BY <1>7 DEF EditPreviousHash
    <2> DEFINE line == [stored[i] EXCEPT !.prev = h]
    <2>2. line \in Line /\ line.ev = stored[i].ev /\ line.prev = h /\ line.hash = stored[i].hash
      BY <1>1, <1>3 DEF Line
    <2>3. [stored EXCEPT ![i].prev = h] = [stored EXCEPT ![i] = line]
      OBVIOUS
    <2> HIDE DEF line
    <2>4. MayBeStored(line)
      BY <1>1, <1>2, <1>7, <2>2 DEF MayBeStored, EditPreviousHash
    <2> QED
      BY <2>1, <2>2, <2>3, <2>4, ReplaceShape, <1>1
  <1>8. CASE EditHash(i)
    <2>1. PICK h \in KnownHash : Edit(i, [stored EXCEPT ![i].hash = h])
      BY <1>8 DEF EditHash
    <2> DEFINE line == [stored[i] EXCEPT !.hash = h]
    <2>2. line \in Line /\ line.ev = stored[i].ev /\ line.hash = h /\ line.prev = stored[i].prev
      BY <1>1, <1>3 DEF Line
    <2>3. [stored EXCEPT ![i].hash = h] = [stored EXCEPT ![i] = line]
      OBVIOUS
    <2> HIDE DEF line
    <2>4. MayBeStored(line)
      BY <1>1, <1>2, <1>8, <2>2 DEF MayBeStored, EditHash
    <2> QED
      BY <2>1, <2>2, <2>3, <2>4, ReplaceShape, <1>1
  <1>9. CASE DeleteLine(i)
    <2> DEFINE n == Len(stored) - 1
               lines == RemoveLine(stored, i)
    <2>1. n \in Nat /\ lines \in [1 .. n -> Line]
      BY <1>1 DEF RemoveLine
    <2>2. lines \in Seq(Line) /\ Len(lines) = n
      BY <2>1, FunctionIsSeq
    <2>3. stored' = lines /\ UNCHANGED written
      BY <1>9 DEF DeleteLine, Edit
    <2>4. \A j \in 1 .. n : lines[j] = IF j < i THEN stored[j] ELSE stored[j + 1]
      BY DEF RemoveLine
    <2> HIDE DEF lines
    <2>5. Deletes(i)
      BY <2>2, <2>3, <2>4 DEF Deletes
    <2> QED
      BY <1>1, <1>9, <2>2, <2>3, <2>5 DEF DeleteLine, Edit, Edits
  <1>10. CASE SwapLines(i)
    <2> DEFINE lines == [stored EXCEPT ![i] = stored[i + 1], ![i + 1] = stored[i]]
    <2>1. i \in 1 .. Len(stored) - 1 /\ stored' = lines /\ UNCHANGED written
      BY <1>1, <1>10 DEF SwapLines, Edit
    <2>2. lines \in [1 .. Len(stored) -> Line]
      BY <1>1, <2>1
    <2>3. lines \in Seq(Line) /\ Len(lines) = Len(stored)
      BY <1>1, <2>2, FunctionIsSeq
    <2>4. /\ lines[i] = stored[i + 1]
          /\ lines[i + 1] = stored[i]
          /\ \A j \in 1 .. Len(stored) : j \notin {i, i + 1} => lines[j] = stored[j]
      BY <1>1, <2>1
    <2> HIDE DEF lines
    <2>5. Swaps(i)
      BY <1>10, <2>1, <2>3, <2>4 DEF SwapLines, Swaps
    <2> QED
      BY <1>1, <1>10, <2>1, <2>3, <2>5 DEF SwapLines, Edit, Edits
  <1>11. CASE RestoreLine(i)
    <2>1. PICK w \in 1 .. Len(written) : Edit(i, [stored EXCEPT ![i] = written[w]])
      BY <1>11, SequenceFacts DEF RestoreLine, TypeInv
    <2>2. /\ written[w] \in Line
          /\ written[w].ev \in Ev
          /\ written[w].ev.id = w
          /\ \/ written[w].prev = NoHash
             \/ \E v \in 1 .. Len(written) : written[w].prev = written[v].hash
      BY SequenceFacts DEF TypeInv, HistoryInv
    <2>3. MayBeStored(written[w])
      BY <2>2, SequenceFacts DEF MayBeStored, KnownHash, TypeInv
    <2> QED
      BY <1>1, <2>1, <2>2, <2>3, ReplaceShape
  <1>12. CASE GarbleLine(i)
    <2>1. MayBeStored(Garbage)
      BY DEF MayBeStored, Garbage, KnownHash
    <2> QED
      BY <1>1, <1>12, <2>1, GarbageType, ReplaceShape DEF GarbleLine
  <1> QED
    BY <1>1, <1>5, <1>6, <1>7, <1>8, <1>9, <1>10, <1>11, <1>12

(* Every step appends or edits.                                            *)
LEMMA StepShape ==
    ASSUME TypeInv, [Next]_vars
    PROVE  Appends \/ (\E i \in 1 .. Len(stored) : Edits(i)) \/ UNCHANGED vars
  <1>1. CASE AppendEvent
    BY <1>1, AppendShape
  <1>2. ASSUME NEW i \in DOMAIN stored,
               \/ EditContent(i) \/ EditHashKeyed(i) \/ EditPreviousHash(i) \/ EditHash(i)
               \/ DeleteLine(i) \/ SwapLines(i) \/ RestoreLine(i) \/ GarbleLine(i)
        PROVE  \E j \in 1 .. Len(stored) : Edits(j)
    BY <1>2, EditShape
  <1> QED
    BY <1>1, <1>2 DEF Next

-----------------------------------------------------------------------------
(* What an append does to the two sequences.                               *)
LEMMA AppendFacts ==
    ASSUME TypeInv, Appends
    PROVE  /\ stored' \in Seq(Line)
           /\ written' \in Seq(Line)
           /\ Len(stored') = Len(stored) + 1
           /\ Len(written') = Len(written) + 1
           /\ \A j \in 1 .. Len(stored) : stored'[j] = stored[j]
           /\ \A w \in 1 .. Len(written) : written'[w] = written[w]
           /\ written'[Len(written) + 1] = stored'[Len(stored) + 1]
           /\ \E line \in Line :
                 /\ stored'[Len(stored) + 1] = line
                 /\ line = ChainedLine(line.ev, ReadLast(stored).hash)
                 /\ line.ev \in Ev
                 /\ line.ev.id = Len(written) + 1
           /\ KnownHash \subseteq KnownHash'
           /\ stored'[Len(stored) + 1].hash \in KnownHash'
  <1>1. PICK line \in Line :
              /\ line = ChainedLine(line.ev, ReadLast(stored).hash)
              /\ line.ev \in Ev
              /\ line.ev.id = Len(written) + 1
              /\ stored' = Append(stored, line)
              /\ written' = Append(written, line)
    BY DEF Appends
  <1>2. /\ stored' \in Seq(Line)
        /\ Len(stored') = Len(stored) + 1
        /\ \A j \in 1 .. Len(stored) : stored'[j] = stored[j]
        /\ stored'[Len(stored) + 1] = line
    BY <1>1, AppendProperties DEF TypeInv, SequencesInv
  <1>3. /\ written' \in Seq(Line)
        /\ Len(written') = Len(written) + 1
        /\ \A w \in 1 .. Len(written) : written'[w] = written[w]
        /\ written'[Len(written) + 1] = line
    BY <1>1, AppendProperties DEF TypeInv, SequencesInv
  <1>4. /\ DOMAIN written = 1 .. Len(written)
        /\ DOMAIN written' = 1 .. Len(written')
        /\ Len(written) \in Nat
    BY <1>3, LenProperties, SequenceFacts DEF TypeInv
  <1>5. KnownHash \subseteq KnownHash' /\ line.hash \in KnownHash'
    BY <1>3, <1>4 DEF KnownHash
  <1> QED
    BY <1>1, <1>2, <1>3, <1>5

(* The first state has its type.                                           *)
LEMMA InitType == Init => TypeInv
  <1> SUFFICES ASSUME Init PROVE TypeInv
    OBVIOUS
  <1>1. Len(stored) = 0 /\ Len(written) = 0 /\ stored \in Seq(Line) /\ written \in Seq(Line)
    BY EmptySeq DEF Init
  <1> QED
    BY <1>1, AuditEditsAssumption DEF Init, TypeInv, SequencesInv, StoredInv, HistoryInv

(* Every step keeps the type.                                              *)
LEMMA TypeStep == TypeInv /\ [Next]_vars => TypeInv'
  <1> SUFFICES ASSUME TypeInv, [Next]_vars PROVE TypeInv'
    OBVIOUS
  <1>1. /\ Len(stored) \in Nat
        /\ Len(written) \in Nat
        /\ Len(stored) <= Len(written)
        /\ Len(written) <= MaxEvents
        /\ MaxEvents \in Nat
        /\ MaxEdits \in Nat
        /\ edits \in 0 .. MaxEdits
    BY SequenceFacts, AuditEditsAssumption DEF TypeInv, SequencesInv
  <1>2. CASE Appends
    <2>1. SequencesInv'
      BY <1>1, <1>2, AppendFacts DEF Appends, SequencesInv, TypeInv
    <2>2. PICK line \in Line : /\ stored'[Len(stored) + 1] = line
                               /\ written'[Len(written) + 1] = line
                               /\ line = ChainedLine(line.ev, ReadLast(stored).hash)
                               /\ line.ev \in Ev
                               /\ line.ev.id = Len(written) + 1
      BY <1>2, AppendFacts
    <2>3. /\ line.prev = ReadLast(stored).hash
          /\ line.hash = Digest(line.ev, line.prev)
          /\ line.prev \in KnownHash
          /\ KnownHash \subseteq KnownHash'
          /\ line.hash \in KnownHash'
      BY <1>2, <2>2, AppendFacts, LastHashKnown DEF ChainedLine, Appends
    <2>4. MayBeStored(line)'
      BY <1>1, <1>2, <2>2, <2>3, AppendFacts DEF MayBeStored
    <2>5. ASSUME NEW j \in 1 .. Len(stored)
          PROVE  MayBeStored(stored[j])'
      <3>1. MayBeStored(stored[j]) /\ stored'[j] = stored[j]
        BY <1>2, AppendFacts DEF TypeInv, StoredInv
      <3> QED
        BY <1>1, <1>2, <2>3, <3>1, AppendFacts DEF MayBeStored
    <2>6. StoredInv'
      BY <1>1, <1>2, <2>2, <2>4, <2>5, AppendFacts DEF StoredInv
    <2>7. line.prev = NoHash \/ \E v \in 1 .. Len(written) : line.prev = written[v].hash
      BY <2>3, SequenceFacts DEF KnownHash, TypeInv
    <2>8. ASSUME NEW w \in 1 .. Len(written) + 1
          PROVE  /\ written'[w].ev \in Ev
                 /\ written'[w].ev.id = w
                 /\ written'[w].hash = Digest(written'[w].ev, written'[w].prev)
                 /\ \/ written'[w].prev = NoHash
                    \/ \E v \in 1 .. w - 1 : written'[w].prev = written'[v].hash
      <3>1. CASE w \in 1 .. Len(written)
        <4>1. written'[w] = written[w] /\ \A v \in 1 .. w - 1 : written'[v] = written[v]
          BY <1>1, <1>2, <3>1, AppendFacts
        <4> QED
          BY <3>1, <4>1 DEF TypeInv, HistoryInv
      <3>2. CASE w = Len(written) + 1
        <4>1. \A v \in 1 .. Len(written) : v \in 1 .. w - 1 /\ written'[v] = written[v]
          BY <1>1, <1>2, <3>2, AppendFacts
        <4> QED
          BY <2>2, <2>3, <2>7, <3>2, <4>1
      <3> QED
        BY <1>1, <3>1, <3>2
    <2>9. HistoryInv'
      BY <1>2, <2>8, AppendFacts DEF HistoryInv
    <2> QED
      BY <2>1, <2>6, <2>9 DEF TypeInv
  <1>3. ASSUME NEW i \in 1 .. Len(stored), Edits(i)
        PROVE  TypeInv'
    <2>1. SequencesInv'
      BY <1>1, <1>3 DEF Edits, Replaces, Deletes, Swaps, SequencesInv, TypeInv
    <2>2. \A line : MayBeStored(line) <=> MayBeStored(line)'
      BY <1>3 DEF Edits, MayBeStored, KnownHash
    <2>3. ASSUME NEW j \in 1 .. Len(stored')
          PROVE  MayBeStored(stored'[j])
      <3>1. CASE Replaces(i)
        BY <1>1, <3>1 DEF Replaces, TypeInv, StoredInv
      <3>2. CASE Deletes(i)
        BY <1>1, <3>2 DEF Deletes, TypeInv, StoredInv
      <3>3. CASE Swaps(i)
        BY <1>1, <3>3 DEF Swaps, TypeInv, StoredInv
      <3> QED
        BY <1>3, <3>1, <3>2, <3>3 DEF Edits
    <2>4. StoredInv'
      BY <2>2, <2>3 DEF StoredInv
    <2>5. HistoryInv'
      BY <1>3 DEF Edits, HistoryInv, TypeInv
    <2> QED
      BY <2>1, <2>4, <2>5 DEF TypeInv
  <1>4. CASE UNCHANGED vars
    BY <1>4 DEF vars, TypeInv, SequencesInv, StoredInv, HistoryInv, MayBeStored, KnownHash
  <1> QED
    BY <1>2, <1>3, <1>4, StepShape

(* The type and the history are invariants.                                *)
LEMMA TypeInvariant == Spec => []TypeInv
  BY InitType, TypeStep, PTL DEF Spec

(* Whatever is edited between the appends, every hash on file is one the   *)
(* logger wrote at some time, and every event on file has the id of one.   *)
THEOREM TypeCorrect == Spec => []TypeOK
  <1>1. TypeInv => TypeOK
    <2> SUFFICES ASSUME TypeInv PROVE TypeOK
      OBVIOUS
    <2>1. ASSUME NEW i \in DOMAIN stored
          PROVE  /\ stored[i].prev \in KnownHash
                 /\ stored[i].hash \in KnownHash
                 /\ stored[i].ev = NoEvent \/ stored[i].ev.id \in DOMAIN written
      BY SequenceFacts DEF TypeInv, StoredInv, MayBeStored, Garbage
    <2> QED
      BY <2>1, SequenceFacts, AuditEditsAssumption DEF TypeInv, SequencesInv, TypeOK
  <1> QED
    BY <1>1, TypeInvariant, PTL

-----------------------------------------------------------------------------
(* Verdicts.                                                               *)

(* An appended line verifies, and changes no other line's verdict.         *)
LEMMA AppendedLineVerifies ==
    ASSUME TypeInv, Appends
    PROVE  /\ LineVerifies(stored', Len(stored) + 1)
           /\ \A j \in 1 .. Len(stored) : LineVerifies(stored', j) <=> LineVerifies(stored, j)
  <1> PICK n \in Nat : n = Len(stored)
    BY SequenceFacts DEF TypeInv
  <1>1. PICK line \in Line : /\ stored'[n + 1] = line
                             /\ line = ChainedLine(line.ev, ReadLast(stored).hash)
                             /\ line.ev \in Ev
    BY AppendFacts
  <1>2. /\ line.prev = ReadLast(stored).hash
        /\ line.hash = Digest(line.ev, line.prev)
    BY <1>1 DEF ChainedLine
  <1>3. line.hash # NoHash
    <2>1. line.ev \in Ev /\ line.prev \in Hashed \X Hashed
      BY <1>1 DEF Line
    <2>2. Digest(line.ev, line.prev) # NoHash
      BY <2>1, DigestFacts
    <2> QED
      BY <1>2, <2>2
  <1>4. Parses(line) /\ HasIntegrity(line)
    BY <1>3 DEF Parses, HasIntegrity, Garbage
  <1>5. line.prev = IF n + 1 = 1 THEN NoHash ELSE stored'[n].hash
    <2>1. CASE n = 0
      BY <1>2, <2>1, LastHashKnown DEF Appends
    <2>2. CASE n # 0
      <3>1. n \in 1 .. Len(stored) /\ stored'[n] = stored[n]
        BY <2>2, AppendFacts
      <3>2. ReadLast(stored).hash = stored[n].hash
        BY <2>2, LastHashKnown DEF Appends
      <3> QED
        BY <1>2, <2>2, <3>1, <3>2
    <2> QED
      BY <2>1, <2>2
  <1>6. LineVerifies(stored', n + 1)
    BY <1>1, <1>2, <1>4, <1>5 DEF LineVerifies
  <1>7. ASSUME NEW j \in 1 .. n
        PROVE  LineVerifies(stored', j) <=> LineVerifies(stored, j)
    <2>1. stored'[j] = stored[j] /\ (j = 1 \/ stored'[j - 1] = stored[j - 1])
      BY AppendFacts
    <2> QED
      BY <2>1, VerdictIsLocal
  <1> QED
    BY <1>6, <1>7

(* Every step keeps UneditedInv.                                           *)
LEMMA UneditedStep == TypeInv /\ UneditedInv /\ [Next]_vars => UneditedInv'
  <1> SUFFICES ASSUME TypeInv, UneditedInv, [Next]_vars, edits' = 0
               PROVE  stored' = written' /\ \A i \in 1 .. Len(stored') : LineVerifies(stored', i)
    BY DEF UneditedInv
  <1>1. CASE Appends
    <2>1. edits = 0 /\ Len(stored) \in Nat
      BY <1>1, SequenceFacts DEF Appends, TypeInv
    <2>2. stored' = written'
      BY <1>1, <2>1 DEF Appends, UneditedInv
    <2>3. \A i \in 1 .. Len(stored) : LineVerifies(stored', i)
      BY <1>1, <2>1, AppendedLineVerifies DEF UneditedInv
    <2> QED
      BY <1>1, <2>1, <2>2, <2>3, AppendedLineVerifies, AppendFacts
  <1>2. ASSUME NEW i \in 1 .. Len(stored), Edits(i)
        PROVE  FALSE
    BY <1>2, AuditEditsAssumption DEF Edits, TypeInv, SequencesInv
  <1>3. CASE UNCHANGED vars
    BY <1>3 DEF vars, UneditedInv
  <1> QED
    BY <1>1, <1>2, <1>3, StepShape

(* A log that only the logger touched verifies, whatever its length.       *)
THEOREM UneditedLogsVerify == Spec => []UneditedLogVerifies
  <1>1. Init => UneditedInv
    BY EmptySeq DEF Init, UneditedInv
  <1>2. TypeInv /\ UneditedInv => UneditedLogVerifies
    BY SequenceFacts DEF TypeInv, UneditedInv, UneditedLogVerifies, Verify
  <1> QED
    BY <1>1, <1>2, UneditedStep, TypeInvariant, PTL DEF Spec

-----------------------------------------------------------------------------
(* A log that verifies holds lines of the logger, in their order.          *)

(* A hash on file is null or that of a line the logger wrote.              *)
LEMMA StoredHashIsWritten ==
    ASSUME TypeInv, NEW h \in KnownHash, h # NoHash
    PROVE  \E w \in 1 .. Len(written) : h = written[w].hash
  BY SequenceFacts DEF KnownHash, TypeInv

(* A line that verifies is a line the logger wrote, but for its keys named *)
(* "hash": its hash names one, and the digest fixes the rest.              *)
LEMMA VerifiedLineIsWritten ==
    ASSUME TypeInv, NEW i \in 1 .. Len(stored), LineVerifies(stored, i)
    PROVE  \E w \in 1 .. Len(written) :
              /\ SameButHashKeys(stored[i], written[w])
              /\ stored[i].ev.id = w
              /\ stored[i].ev \in Ev
  <1>1. /\ Parses(stored[i])
        /\ stored[i].hash # NoHash
        /\ stored[i].hash = Digest(stored[i].ev, stored[i].prev)
    BY DEF LineVerifies, HasIntegrity
  <1>2. /\ stored[i].prev \in KnownHash
        /\ stored[i].hash \in KnownHash
        /\ stored[i].ev \in Ev
        /\ stored[i].prev \in Hashed \X Hashed
    BY <1>1, SequenceFacts DEF TypeInv, StoredInv, MayBeStored, Parses, Line
  <1>3. PICK w \in 1 .. Len(written) : stored[i].hash = written[w].hash
    BY <1>1, <1>2, StoredHashIsWritten
  <1>4. /\ written[w].ev \in Ev
        /\ written[w].ev.id = w
        /\ written[w].hash = Digest(written[w].ev, written[w].prev)
        /\ written[w].prev \in Hashed \X Hashed
        /\ \/ written[w].prev = NoHash
           \/ \E v \in 1 .. w - 1 : written[w].prev = written[v].hash
    BY SequenceFacts DEF TypeInv, HistoryInv, Line
  <1>5. /\ Canonical(stored[i].ev) = Canonical(written[w].ev)
        /\ stored[i].prev[1] = written[w].prev[1]
    BY <1>1, <1>3, <1>4 DEF Digest
  <1>6. written[w].prev \in KnownHash
    BY <1>4, SequenceFacts DEF KnownHash, TypeInv
  <1>7. stored[i].prev = written[w].prev
    BY <1>2, <1>5, <1>6, HashNamesLine DEF TypeInv
  <1>8. stored[i].ev.id = w
    <2>1. Canonical(stored[i].ev) = [id |-> stored[i].ev.id, args |-> stored[i].ev.args]
      BY <1>2, DigestFacts
    <2>2. Canonical(written[w].ev) = [id |-> written[w].ev.id, args |-> written[w].ev.args]
      BY <1>4, DigestFacts
    <2>3. Canonical(stored[i].ev).id = stored[i].ev.id /\ Canonical(written[w].ev).id = written[w].ev.id
      BY <2>1, <2>2
    <2> QED
      BY <1>4, <1>5, <2>3
  <1> QED
    BY <1>1, <1>2, <1>3, <1>5, <1>7, <1>8 DEF SameButHashKeys

(* Of two neighbours that verify, the second was written later: it chains  *)
(* to the first.                                                           *)
LEMMA NeighboursAreInOrder ==
    ASSUME TypeInv, NEW i \in 1 .. Len(stored), i + 1 \in 1 .. Len(stored),
           LineVerifies(stored, i), LineVerifies(stored, i + 1)
    PROVE  stored[i].ev.id < stored[i + 1].ev.id
  <1>1. PICK v \in 1 .. Len(written) : SameButHashKeys(stored[i], written[v]) /\ stored[i].ev.id = v
    BY VerifiedLineIsWritten
  <1>2. PICK w \in 1 .. Len(written) :
            SameButHashKeys(stored[i + 1], written[w]) /\ stored[i + 1].ev.id = w
    BY VerifiedLineIsWritten
  <1>3. written[w].prev = written[v].hash
    <2>1. i + 1 # 1 /\ (i + 1) - 1 = i
      BY SequenceFacts DEF TypeInv
    <2>2. stored[i + 1].prev = stored[i].hash
      BY <2>1 DEF LineVerifies
    <2> QED
      BY <1>1, <1>2, <2>2 DEF SameButHashKeys
  <1>4. written[v].hash[1] # NoEvent
    BY HashNamesLine DEF TypeInv
  <1>5. written[v].hash # NoHash
    BY <1>4 DEF NoHash
  <1>6. PICK u \in 1 .. w - 1 : written[w].prev = written[u].hash
    BY <1>3, <1>5 DEF TypeInv, HistoryInv
  <1>7. u \in 1 .. Len(written) /\ u < w
    BY SequenceFacts DEF TypeInv
  <1>8. u = v
    BY <1>3, <1>6, <1>7, HashNamesLine DEF TypeInv
  <1> QED
    BY <1>1, <1>2, <1>7, <1>8

(* However often the file was edited, and whatever was appended onto an    *)
(* edited file since: a log that verifies holds only lines the logger      *)
(* wrote, unchanged outside keys named "hash", in the order it wrote them. *)
THEOREM VerifiedLogsAreAuthentic == Spec => []VerifiedLinesAreAuthentic
  <1>1. ASSUME TypeInv, Verify(stored).valid
        PROVE  /\ \A i \in DOMAIN stored :
                     \E w \in DOMAIN written : SameButHashKeys(stored[i], written[w])
               /\ \A i, j \in DOMAIN stored : i < j => stored[i].ev.id < stored[j].ev.id
    <2> PICK n \in Nat : n = Len(stored) /\ DOMAIN stored = 1 .. n
      BY <1>1, SequenceFacts DEF TypeInv
    <2>1. \A i \in 1 .. n : LineVerifies(stored, i)
      BY <1>1 DEF Verify
    <2>2. \A i \in DOMAIN stored :
             \E w \in DOMAIN written : SameButHashKeys(stored[i], written[w])
      BY <1>1, <2>1, VerifiedLineIsWritten, SequenceFacts DEF TypeInv
    <2>3. \A i \in 1 .. n : stored[i].ev.id \in Nat
      BY <1>1, <2>1, VerifiedLineIsWritten DEF Ev
    <2> DEFINE Late == {j \in 1 .. n : \E i \in 1 .. j - 1 : ~(stored[i].ev.id < stored[j].ev.id)}
    <2>4. ASSUME Late # {} PROVE FALSE
      \* The first line that does not come after all before it: the line
      \* before it does, and it comes after that one.
      <3>1. PICK j \in Late : \A k \in Late : j <= k
        <4>1. Late \in SUBSET Nat
          OBVIOUS
        <4> HIDE DEF Late
        <4> QED
          BY <2>4, <4>1, SmallestNat
      <3>2. PICK i \in 1 .. j - 1 : ~(stored[i].ev.id < stored[j].ev.id)
        BY <3>1
      <3>3. /\ j \in 1 .. n
            /\ i \in 1 .. n
            /\ j - 1 \in 1 .. n
            /\ (j - 1) + 1 = j
            /\ j - 1 \notin Late
        BY <3>1, <3>2
      <3>4. i # j - 1 => stored[i].ev.id < stored[j - 1].ev.id
        BY <3>2, <3>3
      <3>5. stored[j - 1].ev.id < stored[j].ev.id
        BY <1>1, <2>1, <3>3, NeighboursAreInOrder
      <3> QED
        BY <2>3, <3>2, <3>3, <3>4, <3>5
    <2>5. \A i, j \in DOMAIN stored : i < j => stored[i].ev.id < stored[j].ev.id
      BY <2>4
    <2> QED
      BY <2>2, <2>5
  <1>2. TypeInv => VerifiedLinesAreAuthentic
    BY <1>1 DEF VerifiedLinesAreAuthentic
  <1> QED
    BY <1>2, TypeInvariant, PTL

-----------------------------------------------------------------------------
(* Where one edit shows.                                                   *)

(* After a deletion or a swap, the line that follows chains to the line    *)
(* that is no longer before it.                                            *)
LEMMA MovedLineFails ==
    ASSUME TypeInv, UneditedInv, edits = 0,
           NEW i \in 1 .. Len(stored), i + 1 \in 1 .. Len(stored),
           stored'[i] = stored[i + 1],
           i = 1 \/ stored'[i - 1] = stored[i - 1]
    PROVE  ~LineVerifies(stored', i)
  <1> SUFFICES ASSUME LineVerifies(stored', i) PROVE FALSE
    OBVIOUS
  <1>1. /\ Len(stored) = Len(written)
        /\ stored = written
        /\ i + 1 # 1
        /\ (i + 1) - 1 = i
        /\ Len(stored) \in Nat
    BY SequenceFacts DEF UneditedInv, TypeInv
  <1>2. stored[i + 1].prev = stored[i].hash
    BY <1>1 DEF UneditedInv, LineVerifies
  <1>3. stored[i].hash[1] # NoEvent
    BY <1>1, HashNamesLine DEF TypeInv
  <1>4. CASE i = 1
    BY <1>2, <1>3, <1>4 DEF LineVerifies, NoHash
  <1>5. CASE i # 1
    <2>1. i - 1 \in 1 .. Len(written) /\ stored[i].hash = stored[i - 1].hash
      BY <1>1, <1>2, <1>5 DEF LineVerifies
    <2> QED
      BY <1>1, <1>5, <2>1, HashNamesLine DEF TypeInv
  <1> QED
    BY <1>4, <1>5

(* Every step keeps DamageInv.                                             *)
LEMMA DamageStep == TypeInv /\ UneditedInv /\ DamageInv /\ [Next]_vars => DamageInv'
  <1> SUFFICES ASSUME TypeInv, UneditedInv, DamageInv, [Next]_vars, edits' = 1
               PROVE  /\ at' >= 1
                      /\ \A j \in 1 .. Len(stored') : j < at' => LineVerifies(stored', j)
                      /\ \/ \A j \in 1 .. Len(stored') : LineVerifies(stored', j)
                         \/ \E j \in {at', at' + 1} \cap 1 .. Len(stored') : ~LineVerifies(stored', j)
    BY DEF DamageInv
  <1> PICK n \in Nat : n = Len(stored)
    BY SequenceFacts DEF TypeInv
  <1>1. CASE Appends
    <2>1. /\ edits = 1
          /\ at' = at
          /\ Len(stored') = n + 1
          /\ LineVerifies(stored', n + 1)
          /\ \A j \in 1 .. n : LineVerifies(stored', j) <=> LineVerifies(stored, j)
      BY <1>1, AppendFacts, AppendedLineVerifies DEF Appends
    <2> QED
      BY <2>1 DEF DamageInv
  <1>2. ASSUME NEW i \in 1 .. n, Edits(i)
        PROVE  /\ at' >= 1
               /\ \A j \in 1 .. Len(stored') : j < at' => LineVerifies(stored', j)
               /\ \/ \A j \in 1 .. Len(stored') : LineVerifies(stored', j)
                  \/ \E j \in {at', at' + 1} \cap 1 .. Len(stored') : ~LineVerifies(stored', j)
    <2>1. /\ edits = 0
          /\ at' = i
          /\ \A j \in 1 .. n : LineVerifies(stored, j)
      BY <1>2 DEF Edits, UneditedInv, TypeInv, SequencesInv
    <2>2. \A j \in 1 .. i - 1 : j \in 1 .. n /\ stored'[j] = stored[j]
      BY <1>2 DEF Edits, Replaces, Deletes, Swaps
    <2>3. ASSUME NEW j \in 1 .. i - 1
          PROVE  LineVerifies(stored', j)
      <3>1. stored'[j] = stored[j] /\ (j = 1 \/ stored'[j - 1] = stored[j - 1])
        BY <2>2
      <3> QED
        BY <2>1, <2>2, <3>1, VerdictIsLocal
    <2>4. CASE Replaces(i)
      <3>1. ASSUME NEW j \in 1 .. n, j \notin {i, i + 1}
            PROVE  LineVerifies(stored', j)
        <4>1. stored'[j] = stored[j] /\ (j = 1 \/ stored'[j - 1] = stored[j - 1])
          BY <2>4, <3>1 DEF Replaces
        <4> QED
          BY <2>1, <4>1, VerdictIsLocal
      <3>2. Len(stored') = n
        BY <2>4 DEF Replaces
      <3> QED
        BY <2>1, <2>3, <3>1, <3>2
    <2>5. CASE Deletes(i) /\ i = n
      <3>1. Len(stored') = n - 1
        BY <2>5 DEF Deletes
      <3> QED
        BY <2>1, <2>3, <2>5, <3>1
    <2>6. CASE (Deletes(i) \/ Swaps(i)) /\ i # n
      <3>1. /\ i + 1 \in 1 .. n
            /\ i \in 1 .. Len(stored')
            /\ stored'[i] = stored[i + 1]
            /\ i = 1 \/ stored'[i - 1] = stored[i - 1]
        BY <2>2, <2>6 DEF Deletes, Swaps
      <3>2. ~LineVerifies(stored', i)
        BY <2>1, <3>1, MovedLineFails
      <3> QED
        BY <2>1, <2>3, <3>1, <3>2
    <2> QED
      BY <1>2, <2>4, <2>5, <2>6 DEF Edits, Swaps
  <1>3. CASE UNCHANGED vars
    BY <1>3 DEF vars, DamageInv
  <1> QED
    BY <1>1, <1>2, <1>3, StepShape

(* After one edit, wherever it was made and whatever was appended since, a *)
(* log that does not verify is reported at the edited line or the one      *)
(* after it.                                                               *)
THEOREM FirstInvalidLineIsTheEdit == Spec => []FirstInvalidLineLocatesEdit
  <1>1. Init => UneditedInv /\ DamageInv
    BY EmptySeq DEF Init, UneditedInv, DamageInv
  <1>2. ASSUME TypeInv, DamageInv, edits = 1, ~Verify(stored).valid
        PROVE  Verify(stored).firstInvalidLine \in {at, at + 1}
    <2> PICK n \in Nat : n = Len(stored) /\ DOMAIN stored = 1 .. n
      BY <1>2, SequenceFacts DEF TypeInv
    <2> DEFINE First(k) == /\ ~LineVerifies(stored, k)
                           /\ \A j \in 1 .. k - 1 : LineVerifies(stored, j)
    <2>1. PICK i \in 1 .. n : ~LineVerifies(stored, i)
      BY <1>2 DEF Verify
    <2>2. PICK k \in {at, at + 1} \cap 1 .. n : ~LineVerifies(stored, k)
      BY <1>2, <2>1 DEF DamageInv
    <2>3. at \in Nat /\ at >= 1 /\ \A j \in 1 .. n : j < at => LineVerifies(stored, j)
      BY <1>2, AuditEditsAssumption DEF DamageInv, TypeInv, SequencesInv
    <2>4. \A j \in 1 .. n : First(j) => j \in {at, at + 1}
      BY <2>2, <2>3
    <2>5. \E j \in 1 .. n : First(j)
      <3>1. CASE at \in 1 .. n /\ ~LineVerifies(stored, at)
        BY <2>3, <3>1
      <3>2. CASE k = at + 1 /\ LineVerifies(stored, at)
        <4>1. First(k)
          BY <2>2, <2>3, <3>2
        <4> QED
          BY <2>2, <4>1
      <3> QED
        BY <2>2, <2>3, <3>1, <3>2
    <2>6. Verify(stored).firstInvalidLine = CHOOSE j \in DOMAIN stored : First(j)
      BY <2>1 DEF Verify
    <2> HIDE DEF First
    <2>7. (CHOOSE j \in 1 .. n : First(j)) \in {at, at + 1}
      BY <2>4, <2>5
    <2> QED
      BY <2>6, <2>7
  <1>3. TypeInv /\ DamageInv => FirstInvalidLineLocatesEdit
    BY <1>2 DEF FirstInvalidLineLocatesEdit
  <1> QED
    BY <1>1, <1>3, UneditedStep, DamageStep, TypeInvariant, PTL DEF Spec

===============================================================================
