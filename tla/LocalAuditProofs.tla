-------------------------- MODULE LocalAuditProofs --------------------------
(***************************************************************************)
(* Theorems about LocalAudit: what the audit file guarantees when the      *)
(* appends of any number of callers interleave, for every mixture of       *)
(* integrity options, every set of inputs, every I/O fault and a crash     *)
(* anywhere.                                                               *)
(*                                                                         *)
(* LandShape says what one write does to the file, WriteShape which steps  *)
(* write.  On top of the type, five invariants are proved: EventInv (whose *)
(* event is where), FileInv (no acknowledged event is lost without a torn  *)
(* line), LossInv (a torn line costs one), ChainInv (where a line may      *)
(* chain to) and SerialInv (what holds while no two appends overlap).      *)
(***************************************************************************)
EXTENDS LocalAudit, SequenceTheorems, FiniteSetTheorems, TLAPS

-----------------------------------------------------------------------------
(* The audit file.                                                         *)

(* Hashes, garbage and digests have their types.                           *)
LEMMA HashType ==
    /\ NoHash \in Hash
    /\ Garbage \in Line
    /\ \A ev \in Event, prev \in Hash : Digest(ev, prev) \in Hash
  <1>1. NoEvent \in Content
    BY DEF Content
  <1>2. NoHash \in Hash
    BY <1>1 DEF NoHash, Hash
  <1>3. Garbage \in Line
    BY <1>2 DEF Garbage, Line
  <1>4. ASSUME NEW ev \in Event, NEW prev \in Hash
        PROVE  Digest(ev, prev) \in Hash
    <2>1. Canonical(ev) \in Content
      BY DEF Content
    <2>2. prev[1] \in Content
      BY DEF Hash
    <2> QED
      BY <2>1, <2>2 DEF Digest, Hash
  <1> QED
    BY <1>2, <1>3, <1>4

(* An event makes a line, with and without integrity metadata.             *)
LEMMA LineType ==
    ASSUME NEW ev \in Event, NEW prev \in Hash
    PROVE  PlainLine(ev) \in Line /\ ChainedLine(ev, prev) \in Line
  BY HashType DEF PlainLine, ChainedLine, Line

(* A write leaves a sequence of lines, and an open file has a last line.   *)
Log == {l \in [lines: Seq(Line), open: BOOLEAN] : l.open => l.lines # <<>>}

(* Whatever a write left, the file is a log.                               *)
LEMMA LandType ==
    ASSUME NEW l \in Log, NEW line \in Line, NEW cut \in Cut
    PROVE  Land(l, line, cut) \in Log
  <1> DEFINE written == IF cut = "partial" THEN Garbage ELSE line
  <1>1. CASE cut = "nothing"
    BY <1>1 DEF Land
  <1>2. CASE cut # "nothing" /\ l.open
    <2> DEFINE lines == [l.lines EXCEPT ![Len(l.lines)] = Garbage]
    <2>1. l.lines \in Seq(Line) /\ l.lines # <<>>
      BY <1>2 DEF Log
    <2>2. Len(l.lines) \in 1 .. Len(l.lines)
      BY <2>1, EmptySeq, LenProperties
    <2>3. lines \in Seq(Line) /\ Len(lines) = Len(l.lines)
      BY <2>1, <2>2, HashType, ExceptSeq
    <2>4. lines # <<>>
      BY <2>2, <2>3, EmptySeq
    <2>5. Land(l, line, cut) = [lines |-> lines, open |-> cut # "whole"]
      BY <1>2 DEF Land
    <2> QED
      BY <2>3, <2>4, <2>5 DEF Log
  <1>3. CASE cut # "nothing" /\ ~l.open
    <2> DEFINE lines == Append(l.lines, written)
    <2>1. written \in Line
      BY HashType
    <2>2. lines \in Seq(Line) /\ lines # <<>>
      BY <2>1, AppendProperties DEF Log
    <2>3. Land(l, line, cut) = [lines |-> lines, open |-> cut # "whole"]
      BY <1>3 DEF Land
    <2> QED
      BY <2>2, <2>3 DEF Log
  <1> QED
    BY <1>1, <1>2, <1>3

(* The hash readLastIntegrityHash finds is a hash, or null.                *)
LEMMA ReadLastType ==
    ASSUME NEW lines \in Seq(Line)
    PROVE  ReadLast(lines).hash \in Hash
  <1>1. CASE lines = <<>>
    BY <1>1, HashType DEF ReadLast
  <1>2. CASE lines # <<>>
    <2>1. Len(lines) \in 1 .. Len(lines)
      BY <1>2, EmptySeq, LenProperties
    <2>2. lines[Len(lines)] \in Line
      BY <2>1, ElementOfSeq
    <2> QED
      BY <1>2, <2>2 DEF ReadLast, Line
  <1> QED
    BY <1>1, <1>2

-----------------------------------------------------------------------------
(* The type of the state.                                                  *)

(* An outstanding append holds an event: that is what makes the type       *)
(* inductive, since RedactEvent rewrites a field of it.                    *)
AppendHoldsEvent == \A c \in Caller : append[c].pc # "idle" => append[c].ev \in Event

AuditTypeInv == AuditTypeOK /\ AppendHoldsEvent

Append_ == [pc: AppendPc, ev: Event \cup {NoEvent}, prev: Hash]

(* No append is outstanding in NoAppend.                                   *)
LEMMA NoAppendType == NoAppend \in Append_ /\ NoAppend.pc = "idle"
  BY HashType DEF NoAppend, Append_, AppendPc

(* What CallAppend does to the state.                                      *)
LEMMA CallAppendShape ==
    ASSUME AuditTypeInv, NEW c \in Caller, NEW status \in Status,
           NEW seen \in Decision, NEW decision \in Decision,
           CallAppend(c, status, seen, decision)
    PROVE  LET ev == [caller |-> c, status |-> status, observed |-> seen,
                      decision |-> decision, args |-> args[c]]
           IN  /\ ev \in Event
               /\ append' = [append EXCEPT ![c] = [pc |-> "mkdir", ev |-> ev, prev |-> NoHash]]
               /\ append' \in [Caller -> Append_]
               /\ \A d \in Caller : append'[d].pc # "idle" => append'[d].ev \in Event
               /\ overlapped' \in BOOLEAN
  <1> DEFINE ev == [caller |-> c, status |-> status, observed |-> seen,
                    decision |-> decision, args |-> args[c]]
             called == [pc |-> "mkdir", ev |-> ev, prev |-> NoHash]
  <1>1. args[c] \in Input /\ append \in [Caller -> Append_]
    BY DEF AuditTypeInv, AuditTypeOK, Append_
  <1>2. ev \in Event
    BY <1>1 DEF Event
  <1>3. append' = [append EXCEPT ![c] = called] /\ overlapped' \in BOOLEAN
    BY DEF CallAppend, AuditTypeInv, AuditTypeOK
  <1>4. called \in Append_
    BY <1>2, HashType DEF Append_, AppendPc
  <1>5. append' \in [Caller -> Append_]
    BY <1>1, <1>3, <1>4
  <1>6. \A d \in Caller : append'[d].pc # "idle" => append'[d].ev \in Event
    BY <1>1, <1>2, <1>3 DEF AuditTypeInv, AppendHoldsEvent
  <1> HIDE DEF ev
  <1> QED
    BY <1>2, <1>3, <1>5, <1>6 DEF ev

(* What a step of append does: it moves one append on, keeps its event but  *)
(* for the arguments, and acknowledges the event exactly where it resolves. *)
AppendMoves(c) ==
    /\ append[c].pc \in {"mkdir", "read", "write"}
    /\ \E next \in Append_ :
          /\ next.pc # "idle"
          /\ next.ev \in Event
          /\ append' = [append EXCEPT ![c] = next]
          /\ next.ev.caller = append[c].ev.caller
          /\ next.ev.status = append[c].ev.status
          /\ next.ev.observed = append[c].ev.observed
          /\ next.ev.decision = append[c].ev.decision
          /\ next.ev.args \in {append[c].ev.args, args[c]}
          /\ \/ next.pc = "resolved" /\ acked' = acked \cup {next.ev}
             \/ next.pc # "resolved" /\ acked' = acked
    /\ UNCHANGED <<integrity, args, overlapped>>

(* Every step of append moves one append on, and writes only lines.        *)
LEMMA AppendStepShape ==
    ASSUME AuditTypeInv, NEW c \in Caller, AppendStep(c)
    PROVE  AppendMoves(c) /\ log' \in Log
  <1> DEFINE a == append[c]
  <1>1. /\ append \in [Caller -> Append_]
        /\ a \in Append_
        /\ args[c] \in Input
        /\ log \in Log
        /\ log.lines \in Seq(Line)
        /\ a.prev \in Hash
    BY DEF AuditTypeInv, AuditTypeOK, Append_, Log
  <1>2. a.pc # "idle" => a.ev \in Event
    BY DEF AuditTypeInv, AppendHoldsEvent
  <1>3. CASE RedactEvent(c)
    <2> DEFINE pc == IF integrity[c] = "hash_chain" THEN "read" ELSE "write"
               next == [a EXCEPT !.ev.args = args[c], !.pc = pc]
    <2>1. a.pc = "mkdir" /\ a.ev \in Event
      BY <1>2, <1>3 DEF RedactEvent
    <2>2. append' = [append EXCEPT ![c] = next]
      BY <1>1, <1>3 DEF RedactEvent
    <2>3. [a.ev EXCEPT !.args = args[c]] \in Event
      BY <1>1, <2>1 DEF Event
    <2>4. next.ev = [a.ev EXCEPT !.args = args[c]] /\ next.pc = pc /\ next.prev = a.prev
      BY <1>1, <2>1 DEF Append_
    <2>5. next \in Append_
      BY <1>1, <2>3, <2>4 DEF Append_, AppendPc
    <2>6. /\ next.ev.caller = a.ev.caller
          /\ next.ev.status = a.ev.status
          /\ next.ev.observed = a.ev.observed
          /\ next.ev.decision = a.ev.decision
          /\ next.ev.args = args[c]
      BY <2>1, <2>4 DEF Event
    <2>7. acked' = acked /\ log' = log /\ UNCHANGED <<integrity, args, overlapped>>
      BY <1>3 DEF RedactEvent
    <2> HIDE DEF next
    <2> QED
      BY <1>1, <2>1, <2>2, <2>3, <2>4, <2>5, <2>6, <2>7 DEF AppendMoves
  <1> DEFINE Rejects == /\ a.pc \in {"mkdir", "read", "write"}
                        /\ append' = [append EXCEPT ![c].pc = "rejected"]
                        /\ UNCHANGED <<integrity, args, acked, overlapped>>
  <1>4. ASSUME Rejects
        PROVE  AppendMoves(c)
    <2> DEFINE next == [a EXCEPT !.pc = "rejected"]
    <2>1. next \in Append_ /\ next.pc = "rejected" /\ next.ev = a.ev
      BY <1>1 DEF Append_, AppendPc
    <2>2. append' = [append EXCEPT ![c] = next]
      BY <1>4
    <2>3. a.ev \in Event
      BY <1>2, <1>4
    <2> HIDE DEF next
    <2> QED
      BY <1>4, <2>1, <2>2, <2>3 DEF AppendMoves
  <1>5. CASE MkdirFails(c)
    BY <1>1, <1>4, <1>5 DEF MkdirFails
  <1>6. CASE ReadLastHash(c)
    <2> DEFINE last == ReadLast(log.lines)
               next == [a EXCEPT !.pc = IF last.ok THEN "write" ELSE "rejected",
                                 !.prev = IF last.ok THEN last.hash ELSE NoHash]
    <2>1. last.hash \in Hash
      BY <1>1, ReadLastType
    <2>2. /\ next \in Append_
          /\ next.ev = a.ev
          /\ next.pc \notin {"idle", "resolved"}
      BY <1>1, <2>1, HashType DEF Append_, AppendPc
    <2>3. append' = [append EXCEPT ![c] = next]
      BY <1>6 DEF ReadLastHash
    <2>4. /\ a.pc = "read"
          /\ a.ev \in Event
          /\ acked' = acked
          /\ log' = log
          /\ UNCHANGED <<integrity, args, overlapped>>
      BY <1>2, <1>6 DEF ReadLastHash
    <2> HIDE DEF next
    <2> QED
      BY <1>1, <2>2, <2>3, <2>4 DEF AppendMoves
  <1>7. CASE ReadFails(c)
    BY <1>1, <1>4, <1>7 DEF ReadFails
  <1>8. a.ev \in Event => LineOf(c) \in Line
    BY <1>1, LineType DEF LineOf
  <1>9. CASE AppendFile(c)
    <2> DEFINE next == [a EXCEPT !.pc = "resolved"]
    <2>1. a.pc = "write" /\ a.ev \in Event
      BY <1>2, <1>9 DEF AppendFile
    <2>2. log' \in Log
      BY <1>1, <1>8, <1>9, <2>1, LandType DEF AppendFile, Cut
    <2>3. next \in Append_ /\ next.pc = "resolved" /\ next.ev = a.ev
      BY <1>1 DEF Append_, AppendPc
    <2>4. /\ append' = [append EXCEPT ![c] = next]
          /\ acked' = acked \cup {a.ev}
          /\ UNCHANGED <<integrity, args, overlapped>>
      BY <1>9 DEF AppendFile
    <2> HIDE DEF next
    <2> QED
      BY <2>1, <2>2, <2>3, <2>4 DEF AppendMoves
  <1>10. ASSUME NEW cut \in Cut, AppendFileFails(c, cut)
         PROVE  AppendMoves(c) /\ log' \in Log
    <2>1. a.pc = "write" /\ a.ev \in Event
      BY <1>2, <1>10 DEF AppendFileFails
    <2>2. log' \in Log
      BY <1>1, <1>8, <1>10, <2>1, LandType DEF AppendFileFails
    <2>3. Rejects
      BY <1>10 DEF AppendFileFails
    <2> QED
      BY <1>4, <2>2, <2>3
  <1> QED
    BY <1>3, <1>5, <1>6, <1>7, <1>9, <1>10 DEF AppendStep

-----------------------------------------------------------------------------
(* What a write does.                                                      *)

(* The text runs into an open last line, which no longer parses.           *)
Merges(l, r) ==
    /\ l.open
    /\ Len(l.lines) > 0
    /\ Len(r.lines) = Len(l.lines)
    /\ \A i \in 1 .. Len(l.lines) - 1 : r.lines[i] = l.lines[i]
    /\ r.lines[Len(l.lines)] = Garbage

(* The text is a line of its own.                                          *)
Extends(l, r, written) ==
    /\ ~l.open
    /\ Len(r.lines) = Len(l.lines) + 1
    /\ \A i \in 1 .. Len(l.lines) : r.lines[i] = l.lines[i]
    /\ r.lines[Len(l.lines) + 1] = written

(* A write of nothing has no effect; any other does one of the two.        *)
LEMMA LandShape ==
    ASSUME NEW l \in Log, NEW line \in Line, NEW cut \in Cut
    PROVE  /\ cut = "nothing" => Land(l, line, cut) = l
           /\ cut # "nothing" =>
                 /\ \/ Merges(l, Land(l, line, cut))
                    \/ Extends(l, Land(l, line, cut), IF cut = "partial" THEN Garbage ELSE line)
                 /\ Land(l, line, cut).open = (cut # "whole")
  <1>1. l.lines \in Seq(Line) /\ Len(l.lines) \in Nat
    BY LenProperties DEF Log
  <1>2. CASE cut = "nothing"
    BY <1>1, <1>2 DEF Land
  <1>3. CASE cut # "nothing" /\ l.open
    <2>1. l.lines # <<>>
      BY <1>3 DEF Log
    <2>2. Len(l.lines) \in 1 .. Len(l.lines)
      BY <1>1, <2>1, EmptySeq
    <2> DEFINE lines == [l.lines EXCEPT ![Len(l.lines)] = Garbage]
    <2>3. Land(l, line, cut) = [lines |-> lines, open |-> cut # "whole"]
      BY <1>3 DEF Land
    <2>4. /\ Len(lines) = Len(l.lines)
          /\ \A i \in 1 .. Len(l.lines) - 1 : lines[i] = l.lines[i]
          /\ lines[Len(l.lines)] = Garbage
      BY <1>1, <2>2, HashType, ExceptSeq
    <2> HIDE DEF lines
    <2> QED
      BY <1>1, <1>3, <2>2, <2>3, <2>4 DEF Merges
  <1>4. CASE cut # "nothing" /\ ~l.open
    <2> DEFINE written == IF cut = "partial" THEN Garbage ELSE line
               lines == Append(l.lines, written)
    <2>1. written \in Line
      BY HashType
    <2>2. Land(l, line, cut) = [lines |-> lines, open |-> cut # "whole"]
      BY <1>4 DEF Land
    <2> HIDE DEF written
    <2>3. /\ Len(lines) = Len(l.lines) + 1
          /\ \A i \in 1 .. Len(l.lines) : lines[i] = l.lines[i]
          /\ lines[Len(l.lines) + 1] = written
      BY <1>1, <2>1, AppendProperties
    <2> HIDE DEF lines
    <2> QED
      BY <1>1, <1>4, <2>2, <2>3 DEF written, Extends
  <1> QED
    BY <1>2, <1>3, <1>4

(* A step of append that writes: one caller's line, or part of it, lands,  *)
(* and the append is acknowledged only where all of it landed.             *)
Writes(c) ==
    /\ append[c].pc = "write"
    /\ append[c].ev \in Event
    /\ LineOf(c) \in Line
    /\ \E cut \in Cut \ {"nothing"}, pc \in {"resolved", "rejected"} :
          /\ append' = [append EXCEPT ![c].pc = pc]
          /\ pc = "resolved" => cut = "whole"
          /\ acked' = IF pc = "resolved" THEN acked \cup {append[c].ev} ELSE acked
          /\ \/ Merges(log, log')
             \/ Extends(log, log', IF cut = "partial" THEN Garbage ELSE LineOf(c))
          /\ log'.open = (cut # "whole")
    /\ log' \in Log
    /\ UNCHANGED <<integrity, args, overlapped>>

(* A step of append that leaves the file alone acknowledges nothing, and   *)
(* an append that is ready to write in hash_chain mode has just read the   *)
(* hash of the last line.                                                  *)
Prepares(c) ==
    /\ append[c].pc \in {"mkdir", "read", "write"}
    /\ \E next \in Append_ :
          /\ append' = [append EXCEPT ![c] = next]
          /\ next.pc \in {"read", "write", "rejected"}
          /\ next.ev \in Event
          /\ next.ev.caller = append[c].ev.caller
          /\ (next.pc = "write" /\ integrity[c] = "hash_chain") =>
                ReadLast(log.lines) = [ok |-> TRUE, hash |-> next.prev]
    /\ UNCHANGED <<integrity, log, args, acked, overlapped>>

(* Every step of append does one of the two.                               *)
LEMMA WriteShape ==
    ASSUME AuditTypeInv, NEW c \in Caller, AppendStep(c)
    PROVE  Writes(c) \/ Prepares(c)
  <1> DEFINE a == append[c]
  <1>1. /\ append \in [Caller -> Append_]
        /\ a \in Append_
        /\ args[c] \in Input
        /\ log \in Log
        /\ log.lines \in Seq(Line)
        /\ a.prev \in Hash
    BY DEF AuditTypeInv, AuditTypeOK, Append_, Log
  <1>2. a.pc # "idle" => a.ev \in Event /\ LineOf(c) \in Line
    BY <1>1, LineType DEF AuditTypeInv, AppendHoldsEvent, LineOf
  <1>3. CASE RedactEvent(c)
    <2> DEFINE pc == IF integrity[c] = "hash_chain" THEN "read" ELSE "write"
               next == [a EXCEPT !.ev.args = args[c], !.pc = pc]
    <2>1. a.pc = "mkdir" /\ a.ev \in Event
      BY <1>2, <1>3 DEF RedactEvent
    <2>2. [a.ev EXCEPT !.args = args[c]] \in Event
      BY <1>1, <2>1 DEF Event
    <2>3. next.ev = [a.ev EXCEPT !.args = args[c]] /\ next.pc = pc /\ next \in Append_
      BY <1>1, <2>1, <2>2 DEF Append_, AppendPc
    <2>4. next.ev.caller = a.ev.caller
      BY <2>1, <2>3 DEF Event
    <2>5. append' = [append EXCEPT ![c] = next] /\ UNCHANGED <<integrity, log, args, acked, overlapped>>
      BY <1>1, <1>3 DEF RedactEvent
    <2> HIDE DEF next
    <2> QED
      BY <2>1, <2>2, <2>3, <2>4, <2>5 DEF Prepares
  <1>4. ASSUME a.pc \in {"mkdir", "read", "write"},
               append' = [append EXCEPT ![c].pc = "rejected"],
               UNCHANGED <<integrity, log, args, acked, overlapped>>
        PROVE  Prepares(c)
    <2> DEFINE next == [a EXCEPT !.pc = "rejected"]
    <2>1. next \in Append_ /\ next.pc = "rejected" /\ next.ev = a.ev /\ next.ev \in Event
      BY <1>1, <1>2, <1>4 DEF Append_, AppendPc
    <2>2. append' = [append EXCEPT ![c] = next]
      BY <1>4
    <2> HIDE DEF next
    <2> QED
      BY <1>4, <2>1, <2>2 DEF Prepares
  <1>5. CASE MkdirFails(c) \/ ReadFails(c)
    BY <1>4, <1>5 DEF MkdirFails, ReadFails
  <1>6. CASE ReadLastHash(c)
    <2> DEFINE last == ReadLast(log.lines)
               next == [a EXCEPT !.pc = IF last.ok THEN "write" ELSE "rejected",
                                 !.prev = IF last.ok THEN last.hash ELSE NoHash]
    <2>1. last.hash \in Hash /\ last = [ok |-> last.ok, hash |-> last.hash] /\ last.ok \in BOOLEAN
      BY <1>1, ReadLastType DEF ReadLast, HasIntegrity
    <2> HIDE DEF last
    <2>2. /\ next \in Append_
          /\ next.ev = a.ev
          /\ next.pc \in {"write", "rejected"}
          /\ next.pc = "write" => last = [ok |-> TRUE, hash |-> next.prev]
      BY <1>1, <2>1, HashType DEF Append_, AppendPc
    <2>3. append' = [append EXCEPT ![c] = next]
      BY <1>6 DEF ReadLastHash, last
    <2>4. /\ a.pc = "read"
          /\ a.ev \in Event
          /\ UNCHANGED <<integrity, log, args, acked, overlapped>>
      BY <1>2, <1>6 DEF ReadLastHash
    <2> HIDE DEF next
    <2> QED
      BY <2>2, <2>3, <2>4 DEF Prepares, last
  <1>7. log' \in Log
    BY AppendStepShape
  <1>8. CASE AppendFile(c)
    <2>1. a.pc = "write" /\ a.ev \in Event /\ LineOf(c) \in Line
      BY <1>2, <1>8 DEF AppendFile
    <2>2. /\ Merges(log, log') \/ Extends(log, log', LineOf(c))
          /\ log'.open = FALSE
      BY <1>1, <1>8, <2>1, LandShape DEF AppendFile, Cut
    <2> QED
      BY <1>7, <1>8, <2>1, <2>2 DEF AppendFile, Writes, Cut
  <1>9. ASSUME NEW cut \in Cut, AppendFileFails(c, cut)
        PROVE  Writes(c) \/ Prepares(c)
    <2>1. a.pc = "write" /\ a.ev \in Event /\ LineOf(c) \in Line
      BY <1>2, <1>9 DEF AppendFileFails
    <2>2. CASE cut = "nothing"
      <3>1. log' = log
        BY <1>1, <1>9, <2>1, <2>2, LandShape DEF AppendFileFails
      <3> QED
        BY <1>4, <1>9, <2>1, <3>1 DEF AppendFileFails
    <2>3. CASE cut # "nothing"
      <3>1. /\ \/ Merges(log, log')
               \/ Extends(log, log', IF cut = "partial" THEN Garbage ELSE LineOf(c))
            /\ log'.open = (cut # "whole")
        BY <1>1, <1>9, <2>1, <2>3, LandShape DEF AppendFileFails
      <3> QED
        BY <1>7, <1>9, <2>1, <2>3, <3>1 DEF AppendFileFails, Writes
    <2> QED
      BY <2>2, <2>3
  <1> QED
    BY <1>3, <1>5, <1>6, <1>8, <1>9 DEF AppendStep

-----------------------------------------------------------------------------
(* Type correctness.                                                       *)

(* The first state has its type.                                           *)
LEMMA AuditInitType == AuditInit => AuditTypeInv
  <1> SUFFICES ASSUME AuditInit PROVE AuditTypeInv
    OBVIOUS
  <1>1. EmptyLog \in [lines: Seq(Line), open: BOOLEAN] /\ ~EmptyLog.open
    BY EmptySeq DEF EmptyLog
  <1>2. append \in [Caller -> Append_] /\ AppendHoldsEvent
    BY NoAppendType DEF AuditInit, AppendHoldsEvent
  <1> QED
    BY <1>1, <1>2 DEF AuditInit, AuditTypeInv, AuditTypeOK, Append_

(* A step of append keeps the type.                                        *)
LEMMA AppendStepType ==
    ASSUME AuditTypeInv, NEW c \in Caller, AppendStep(c)
    PROVE  AuditTypeInv'
  <1>1. AppendMoves(c) /\ log' \in Log
    BY AppendStepShape
  <1>2. PICK next \in Append_ : /\ next.ev \in Event
                                /\ append' = [append EXCEPT ![c] = next]
                                /\ acked' \in {acked, acked \cup {next.ev}}
    BY <1>1 DEF AppendMoves
  <1>3. append \in [Caller -> Append_]
    BY DEF AuditTypeInv, AuditTypeOK, Append_
  <1>4. append' \in [Caller -> Append_] /\ AppendHoldsEvent'
    BY <1>2, <1>3 DEF AuditTypeInv, AppendHoldsEvent
  <1> QED
    BY <1>1, <1>2, <1>4 DEF AppendMoves, AuditTypeInv, AuditTypeOK, Append_, Log

(* What StartAppend does: an idle append becomes an outstanding one.       *)
Starts(c) ==
    /\ append[c].pc = "idle"
    /\ \E next \in Append_ :
          /\ append' = [append EXCEPT ![c] = next]
          /\ next.pc = "mkdir"
          /\ next.ev \in Event
          /\ next.ev.caller = c
    /\ overlapped' = (overlapped \/ \E d \in Caller : InFlight(d))
    /\ UNCHANGED <<integrity, log, args, acked>>

(* StartAppend starts an append of the caller's own event.                 *)
LEMMA StartShape ==
    ASSUME AuditTypeInv, NEW c \in Caller, StartAppend(c)
    PROVE  Starts(c)
  <1> DEFINE ev == [caller |-> c, status |-> "executed", observed |-> "allow",
                    decision |-> "allow", args |-> args[c]]
             next == [pc |-> "mkdir", ev |-> ev, prev |-> NoHash]
  <1>1. ev \in Event /\ ev.caller = c
    BY DEF AuditTypeInv, AuditTypeOK, Event, Status, Decision
  <1>2. append' = [append EXCEPT ![c] = next]
    BY DEF StartAppend, CallAppend
  <1> HIDE DEF ev
  <1>3. next \in Append_ /\ next.pc = "mkdir" /\ next.ev = ev
    BY <1>1, HashType DEF Append_, AppendPc
  <1> HIDE DEF next
  <1> QED
    BY <1>1, <1>2, <1>3 DEF StartAppend, CallAppend, Starts

(* Every step of the callers keeps the type.                               *)
LEMMA AuditTypeStep == AuditTypeInv /\ [AuditNext]_auditVars => AuditTypeInv'
  <1> SUFFICES ASSUME AuditTypeInv, [AuditNext]_auditVars PROVE AuditTypeInv'
    OBVIOUS
  <1>1. append \in [Caller -> Append_]
    BY DEF AuditTypeInv, AuditTypeOK, Append_
  <1>2. ASSUME NEW c \in Caller, StartAppend(c)
        PROVE  AuditTypeInv'
    <2>1. Starts(c)
      BY <1>2, StartShape
    <2>2. append' \in [Caller -> Append_] /\ AppendHoldsEvent'
      BY <1>1, <2>1 DEF Starts, AuditTypeInv, AppendHoldsEvent
    <2>3. overlapped' \in BOOLEAN
      BY <2>1 DEF Starts, AuditTypeInv, AuditTypeOK
    <2> QED
      BY <2>1, <2>2, <2>3 DEF Starts, AuditTypeInv, AuditTypeOK, Append_
  <1>3. ASSUME NEW c \in Caller, AppendStep(c)
        PROVE  AuditTypeInv'
    BY <1>3, AppendStepType
  <1>4. CASE Crash
    <2>1. ASSUME NEW c \in Caller
          PROVE  /\ append'[c] \in Append_
                 /\ append'[c].pc # "idle" => append'[c].ev \in Event
      BY <1>1, <1>4, <2>1 DEF Crash, InFlight, AuditTypeInv, AppendHoldsEvent, Append_, AppendPc
    <2>2. append' \in [Caller -> Append_] /\ AppendHoldsEvent'
      BY <1>4, <2>1 DEF Crash, AppendHoldsEvent
    <2> QED
      BY <1>4, <2>2 DEF Crash, AuditTypeInv, AuditTypeOK, Append_
  <1>5. CASE UNCHANGED auditVars
    BY <1>5 DEF auditVars, AuditTypeInv, AuditTypeOK, AppendHoldsEvent
  <1> QED
    BY <1>2, <1>3, <1>4, <1>5 DEF AuditNext

(* The type invariant, with what an outstanding append holds.              *)
LEMMA AuditTypeInvariant == AuditSpec => []AuditTypeInv
  BY AuditInitType, AuditTypeStep, PTL DEF AuditSpec

(* However the appends interleave and wherever they fail, the file is a    *)
(* sequence of whole lines of the logger and of torn ones, and an open     *)
(* last line is a line.                                                    *)
THEOREM AuditTypeCorrect == AuditSpec => []AuditTypeOK
  BY AuditTypeInvariant, PTL DEF AuditTypeInv

(* No step of any append, failing or not, and no crash takes a line away   *)
(* from the file or changes one that has its newline.                      *)
THEOREM FileIsAppendOnly == AuditSpec => AppendOnly
  <1> DEFINE Grows == /\ Len(log'.lines) >= Len(log.lines)
                      /\ \A i \in DOMAIN log.lines :
                            (i < Len(log.lines) \/ ~log.open) => log'.lines[i] = log.lines[i]
  <1>1. AuditTypeInv /\ [AuditNext]_auditVars => [Grows]_log
    <2> SUFFICES ASSUME AuditTypeInv, [AuditNext]_auditVars, log' # log PROVE Grows
      OBVIOUS
    <2>1. log.lines \in Seq(Line) /\ Len(log.lines) \in Nat /\ DOMAIN log.lines = 1 .. Len(log.lines)
      BY LenProperties DEF AuditTypeInv, AuditTypeOK
    <2>2. PICK c \in Caller : AppendStep(c)
      BY DEF AuditNext, StartAppend, Crash, auditVars
    <2>3. Writes(c)
      BY <2>2, WriteShape DEF Prepares
    <2>4. PICK written : Merges(log, log') \/ Extends(log, log', written)
      BY <2>3 DEF Writes
    <2>5. CASE Merges(log, log')
      BY <2>1, <2>5 DEF Merges
    <2>6. CASE Extends(log, log', written)
      BY <2>1, <2>6 DEF Extends
    <2> QED
      BY <2>4, <2>5, <2>6
  <1> HIDE DEF Grows
  <1>2. AuditSpec => [][Grows]_log
    BY <1>1, AuditTypeInvariant, PTL DEF AuditSpec
  <1> QED
    BY <1>2 DEF Grows, AppendOnly

-----------------------------------------------------------------------------
(* Whose event is where.                                                   *)

(* An append holds an event of its caller; an acknowledged event is the    *)
(* one its caller's append resolved with; a line that holds an event holds *)
(* that of an append that has settled, and no other line holds it.         *)
EventInv ==
    /\ \A c \in Caller : append[c].pc # "idle" => append[c].ev.caller = c
    /\ \A ev \in acked : append[ev.caller].pc = "resolved" /\ append[ev.caller].ev = ev
    /\ \A i \in DOMAIN log.lines : log.lines[i].ev # NoEvent =>
          /\ append[log.lines[i].ev.caller].pc \in {"resolved", "rejected"}
          /\ append[log.lines[i].ev.caller].ev = log.lines[i].ev
    /\ \A i, j \in DOMAIN log.lines :
          log.lines[i].ev # NoEvent /\ log.lines[i].ev = log.lines[j].ev => i = j

(* What the lines of a log are.                                            *)
LEMMA LogFacts ==
    ASSUME NEW l \in Log
    PROVE  /\ Len(l.lines) \in Nat
           /\ DOMAIN l.lines = 1 .. Len(l.lines)
           /\ \A i \in 1 .. Len(l.lines) :
                 /\ l.lines[i] \in Line
                 /\ l.lines[i].ev # NoEvent =>
                       l.lines[i].ev \in Event /\ l.lines[i].ev.caller \in Caller
           /\ l.open \in BOOLEAN
           /\ l.open => Len(l.lines) > 0
  <1>1. l.lines \in Seq(Line) /\ l.open \in BOOLEAN /\ (l.open => l.lines # <<>>)
    BY DEF Log
  <1>2. Len(l.lines) \in Nat /\ DOMAIN l.lines = 1 .. Len(l.lines)
    BY <1>1, LenProperties
  <1>3. \A i \in 1 .. Len(l.lines) : l.lines[i] \in Line
    BY <1>1, ElementOfSeq
  <1>4. l.open => Len(l.lines) > 0
    BY <1>1, <1>2, EmptySeq
  <1> QED
    BY <1>1, <1>2, <1>3, <1>4 DEF Line, Event

(* The audit file is a log.                                                *)
LEMMA LogIsLog == AuditTypeInv => log \in Log
  BY DEF AuditTypeInv, AuditTypeOK, Log

(* A line of the logger holds the event, and parses.                       *)
LEMMA LineOfEvent ==
    ASSUME NEW c \in Caller, append[c].ev \in Event
    PROVE  LineOf(c).ev = append[c].ev /\ LineOf(c).ev # NoEvent /\ Parses(LineOf(c))
  <1>1. LineOf(c).ev = append[c].ev
    BY DEF LineOf, PlainLine, ChainedLine
  <1> QED
    BY <1>1, NoEventAssumption DEF Parses, Garbage

(* Each line after a write was there, is the new one, or is torn.          *)
LEMMA LinesAfterWrite ==
    ASSUME AuditTypeInv, NEW c \in Caller, Writes(c),
           NEW i \in DOMAIN log'.lines
    PROVE  \/ i \in DOMAIN log.lines /\ log'.lines[i] = log.lines[i]
           \/ log'.lines[i] = Garbage
           \/ i = Len(log.lines) + 1 /\ log'.lines[i] = LineOf(c)
  <1>1. log \in Log /\ log' \in Log
    BY LogIsLog DEF Writes
  <1>2. PICK written \in {Garbage, LineOf(c)} : Merges(log, log') \/ Extends(log, log', written)
    BY DEF Writes
  <1>3. /\ Len(log.lines) \in Nat
        /\ DOMAIN log.lines = 1 .. Len(log.lines)
        /\ DOMAIN log'.lines = 1 .. Len(log'.lines)
    BY <1>1, LogFacts
  <1>4. CASE Merges(log, log')
    BY <1>3, <1>4 DEF Merges
  <1>5. CASE Extends(log, log', written)
    BY <1>2, <1>3, <1>5 DEF Extends
  <1> QED
    BY <1>2, <1>4, <1>5

(* A step that writes nothing, acknowledges nothing, and moves no append   *)
(* that has settled.                                                       *)
LEMMA EventKept ==
    ASSUME AuditTypeInv, EventInv, UNCHANGED <<log, acked>>,
           \A c \in Caller :
               /\ append[c].pc \in {"resolved", "rejected"} => append'[c] = append[c]
               /\ append'[c].pc # "idle" => append'[c].ev.caller = c
    PROVE  EventInv'
  <1>1. \A ev \in acked : ev.caller \in Caller
    BY DEF AuditTypeInv, AuditTypeOK, Event
  <1>2. \A i \in DOMAIN log.lines : log.lines[i].ev # NoEvent => log.lines[i].ev.caller \in Caller
    BY LogIsLog, LogFacts
  <1> QED
    BY <1>1, <1>2 DEF EventInv

(* A write puts an event on file that no line holds yet.                   *)
LEMMA EventWritten ==
    ASSUME AuditTypeInv, EventInv, NEW c \in Caller, Writes(c)
    PROVE  EventInv'
  <1> DEFINE n  == Len(log.lines)
             ev == append[c].ev
  <1>1. /\ append[c].pc = "write"
        /\ ev \in Event
        /\ ev.caller = c
        /\ ev # NoEvent
        /\ LineOf(c).ev = ev
    BY LineOfEvent, NoEventAssumption DEF Writes, EventInv
  <1>2. PICK pc \in {"resolved", "rejected"} :
            /\ append' = [append EXCEPT ![c].pc = pc]
            /\ acked' = IF pc = "resolved" THEN acked \cup {ev} ELSE acked
    BY DEF Writes
  <1>3. /\ append'[c].pc = pc
        /\ append'[c].ev = ev
        /\ \A d \in Caller \ {c} : append'[d] = append[d]
    BY <1>2 DEF AuditTypeInv, AuditTypeOK
  <1>4. \A d \in Caller : append'[d].pc # "idle" => append'[d].ev.caller = d
    BY <1>1, <1>3 DEF EventInv
  <1>5. ASSUME NEW e \in acked'
        PROVE  append'[e.caller].pc = "resolved" /\ append'[e.caller].ev = e
    <2>1. CASE e \in acked
      <3>1. e.caller \in Caller \ {c}
        BY <1>1, <2>1 DEF AuditTypeInv, AuditTypeOK, Event, EventInv
      <3> QED
        BY <1>3, <2>1, <3>1 DEF EventInv
    <2>2. CASE e \notin acked
      BY <1>1, <1>2, <1>3, <1>5, <2>2
    <2> QED
      BY <2>1, <2>2
  <1> HIDE DEF n, ev
  <1>6. ASSUME NEW i \in DOMAIN log'.lines, log'.lines[i].ev # NoEvent
        PROVE  \/ /\ i \in DOMAIN log.lines
                  /\ log'.lines[i] = log.lines[i]
                  /\ log.lines[i].ev.caller \in Caller \ {c}
                  /\ log.lines[i].ev # ev
               \/ i = n + 1 /\ log'.lines[i].ev = ev
    <2>1. CASE i \in DOMAIN log.lines /\ log'.lines[i] = log.lines[i]
      <3>1. log.lines[i].ev.caller \in Caller /\ log.lines[i].ev # NoEvent
        BY <1>6, <2>1, LogIsLog, LogFacts
      <3> QED
        BY <1>1, <2>1, <3>1 DEF EventInv
    <2>2. log'.lines[i] # Garbage
      BY <1>6 DEF Garbage
    <2> QED
      BY <1>1, <2>1, <2>2, LinesAfterWrite DEF n
  <1>7. \A i \in DOMAIN log'.lines : log'.lines[i].ev # NoEvent =>
          /\ append'[log'.lines[i].ev.caller].pc \in {"resolved", "rejected"}
          /\ append'[log'.lines[i].ev.caller].ev = log'.lines[i].ev
    BY <1>1, <1>3, <1>6 DEF EventInv
  <1>8. \A i, j \in DOMAIN log'.lines :
          log'.lines[i].ev # NoEvent /\ log'.lines[i].ev = log'.lines[j].ev => i = j
    BY <1>6 DEF EventInv
  <1> QED
    BY <1>4, <1>5, <1>7, <1>8 DEF EventInv

(* Every step keeps EventInv.                                              *)
LEMMA EventStep == AuditTypeInv /\ EventInv /\ [AuditNext]_auditVars => EventInv'
  <1> SUFFICES ASSUME AuditTypeInv, EventInv, [AuditNext]_auditVars PROVE EventInv'
    OBVIOUS
  <1>1. append \in [Caller -> Append_]
    BY DEF AuditTypeInv, AuditTypeOK, Append_
  <1>2. ASSUME NEW c \in Caller, StartAppend(c)
        PROVE  EventInv'
    BY <1>1, <1>2, StartShape, EventKept DEF Starts, EventInv
  <1>3. ASSUME NEW c \in Caller, Prepares(c)
        PROVE  EventInv'
    <2>1. append[c].ev.caller = c /\ append[c].pc \notin {"resolved", "rejected"}
      BY <1>3 DEF Prepares, EventInv
    <2> QED
      BY <1>1, <1>3, <2>1, EventKept DEF Prepares, EventInv
  <1>4. CASE Crash
    BY <1>1, <1>4, EventKept DEF Crash, InFlight, Append_, EventInv
  <1>5. CASE UNCHANGED auditVars
    BY <1>5 DEF auditVars, EventInv
  <1> QED
    BY <1>2, <1>3, <1>4, <1>5, WriteShape, EventWritten DEF AuditNext

(* EventInv is an invariant.                                               *)
LEMMA EventInvariant == AuditSpec => []EventInv
  <1>1. AuditInit => EventInv
    BY NoAppendType, EmptySeq DEF AuditInit, EventInv, EmptyLog
  <1> QED
    BY <1>1, EventStep, AuditTypeInvariant, PTL DEF AuditSpec

-----------------------------------------------------------------------------
(* No acknowledged event is lost while every line parses.                  *)

FileInv == GarbageLines = {} => \A ev \in acked : OnFile(ev)

(* Every step keeps FileInv: a write into an open line, the only one that  *)
(* could take an event off the file, leaves a torn line.                   *)
LEMMA FileStep == AuditTypeInv /\ FileInv /\ [AuditNext]_auditVars => FileInv'
  <1> SUFFICES ASSUME AuditTypeInv, FileInv, [AuditNext]_auditVars, GarbageLines' = {}
               PROVE  \A ev \in acked' : OnFile(ev)'
    BY DEF FileInv
  <1>1. CASE UNCHANGED <<log, acked>>
    BY <1>1 DEF FileInv, GarbageLines, OnFile, Parses
  <1>2. ASSUME NEW c \in Caller, Writes(c)
        PROVE  \A ev \in acked' : OnFile(ev)'
    <2> DEFINE n == Len(log.lines)
    <2>1. log \in Log /\ log' \in Log
      BY <1>2, LogIsLog DEF Writes
    <2>2. /\ n \in Nat
          /\ DOMAIN log.lines = 1 .. n
          /\ DOMAIN log'.lines = 1 .. Len(log'.lines)
          /\ \A i \in DOMAIN log'.lines : log'.lines[i] # Garbage
      BY <2>1, LogFacts DEF GarbageLines, Parses
    <2>3. PICK written \in {Garbage, LineOf(c)} : Merges(log, log') \/ Extends(log, log', written)
      BY <1>2 DEF Writes
    <2>4. Extends(log, log', LineOf(c))
      BY <2>2, <2>3 DEF Merges, Extends
    <2>5. /\ DOMAIN log'.lines = 1 .. n + 1
          /\ \A i \in 1 .. n : log'.lines[i] = log.lines[i]
          /\ log'.lines[n + 1].ev = append[c].ev
      BY <1>2, <2>2, <2>4, LineOfEvent DEF Extends, Writes
    <2>6. \A ev \in acked : OnFile(ev)
      BY <2>2, <2>5 DEF FileInv, GarbageLines, Parses
    <2>7. acked' \subseteq acked \cup {append[c].ev}
      BY <1>2 DEF Writes
    <2> QED
      BY <2>2, <2>5, <2>6, <2>7 DEF OnFile
  <1> QED
    BY <1>1, <1>2, WriteShape DEF AuditNext, StartAppend, Crash, Prepares, auditVars

(* However the appends of the callers interleave, which of them fail, and  *)
(* wherever the process stops: while no line is torn, an event whose       *)
(* append resolved is on file, on one line.                                *)
THEOREM AckedEventsAreOnFile == AuditSpec => []AckedEventsOnFile
  <1>1. AuditInit => FileInv
    BY DEF AuditInit, FileInv
  <1>2. AuditTypeInv /\ EventInv /\ FileInv => AckedEventsOnFile
    <2> SUFFICES ASSUME AuditTypeInv, EventInv, FileInv, GarbageLines = {}, NEW ev \in acked
                 PROVE  \E i \in DOMAIN log.lines :
                          /\ log.lines[i].ev = ev
                          /\ \A j \in DOMAIN log.lines : log.lines[j].ev = ev => j = i
      BY DEF AckedEventsOnFile
    <2>1. PICK i \in DOMAIN log.lines : log.lines[i].ev = ev
      BY DEF FileInv, OnFile
    <2>2. ev # NoEvent
      BY NoEventAssumption DEF AuditTypeInv, AuditTypeOK
    <2> QED
      BY <2>1, <2>2 DEF EventInv
  <1> QED
    BY <1>1, <1>2, FileStep, EventInvariant, AuditTypeInvariant, PTL DEF AuditSpec

-----------------------------------------------------------------------------
(* A torn line costs one acknowledged event.                               *)

Missing == {ev \in acked : ~OnFile(ev)}

(* The torn lines that no later write can run into.  Only a write into an  *)
(* open line loses an event that was, or is to be, acknowledged, and when  *)
(* it is acknowledged it closes that line.                                 *)
ClosedGarbage == {i \in GarbageLines : i < Len(log.lines) \/ ~log.open}

(* The line a write may run into holds no acknowledged event: the append   *)
(* that left it open was rejected.                                         *)
LossInv ==
    /\ IsFiniteSet(Missing)
    /\ Cardinality(Missing) <= Cardinality(ClosedGarbage)
    /\ log.open => LET last == log.lines[Len(log.lines)]
                   IN  last.ev # NoEvent => append[last.ev.caller].pc = "rejected"

(* The torn lines of a log are finitely many.                              *)
LEMMA GarbageFinite ==
    ASSUME NEW l \in Log, NEW G, G \subseteq DOMAIN l.lines
    PROVE  IsFiniteSet(G)
  <1>1. IsFiniteSet(1 .. Len(l.lines))
    BY LogFacts, FS_Interval
  <1> QED
    BY <1>1, LogFacts, FS_Subset

(* How a step may change what is missing: nothing more is, or one event    *)
(* more is and one more torn line is closed.                               *)
LEMMA OneLossPerTornLine ==
    ASSUME IsFiniteSet(Missing), Cardinality(Missing) <= Cardinality(ClosedGarbage),
           IsFiniteSet(ClosedGarbage'), ClosedGarbage \subseteq ClosedGarbage',
           \/ Missing' \subseteq Missing
           \/ \E ev : \E i \in ClosedGarbage' \ ClosedGarbage : Missing' \subseteq Missing \cup {ev}
    PROVE  IsFiniteSet(Missing') /\ Cardinality(Missing') <= Cardinality(ClosedGarbage')
  <1>1. IsFiniteSet(ClosedGarbage) /\ Cardinality(ClosedGarbage) <= Cardinality(ClosedGarbage')
    BY FS_Subset
  <1>2. /\ Cardinality(Missing) \in Nat
        /\ Cardinality(ClosedGarbage) \in Nat
        /\ Cardinality(ClosedGarbage') \in Nat
    BY <1>1, FS_CardinalityType
  <1>3. CASE Missing' \subseteq Missing
    <2>1. IsFiniteSet(Missing') /\ Cardinality(Missing') <= Cardinality(Missing)
      BY <1>3, FS_Subset
    <2>2. Cardinality(Missing') \in Nat
      BY <2>1, FS_CardinalityType
    <2> QED
      BY <1>1, <1>2, <2>1, <2>2
  <1>4. ASSUME NEW ev, NEW i \in ClosedGarbage' \ ClosedGarbage,
               Missing' \subseteq Missing \cup {ev}
        PROVE  IsFiniteSet(Missing') /\ Cardinality(Missing') <= Cardinality(ClosedGarbage')
    <2>1. /\ IsFiniteSet(Missing \cup {ev})
          /\ Cardinality(Missing \cup {ev}) \in {Cardinality(Missing), Cardinality(Missing) + 1}
      BY FS_AddElement
    <2>2. /\ IsFiniteSet(Missing')
          /\ Cardinality(Missing') \in Nat
          /\ Cardinality(Missing') <= Cardinality(Missing \cup {ev})
      BY <1>4, <2>1, FS_Subset, FS_CardinalityType
    <2>3. /\ IsFiniteSet(ClosedGarbage \cup {i})
          /\ Cardinality(ClosedGarbage \cup {i}) = Cardinality(ClosedGarbage) + 1
      BY <1>1, <1>4, FS_AddElement
    <2>4. Cardinality(ClosedGarbage \cup {i}) <= Cardinality(ClosedGarbage')
      BY <1>4, FS_Subset
    <2> QED
      BY <1>2, <2>1, <2>2, <2>3, <2>4
  <1> QED
    BY <1>3, <1>4

(* A write keeps LossInv.                                                  *)
LEMMA LossWritten ==
    ASSUME AuditTypeInv, EventInv, LossInv, NEW c \in Caller, Writes(c)
    PROVE  LossInv'
  <1> PICK n \in Nat, ev \in Event : n = Len(log.lines) /\ ev = append[c].ev
    BY LogIsLog, LogFacts DEF Writes
  <1>1. log \in Log /\ log' \in Log
    BY LogIsLog DEF Writes
  <1>2. /\ n \in Nat
        /\ DOMAIN log.lines = 1 .. n
        /\ DOMAIN log'.lines = 1 .. Len(log'.lines)
        /\ log.open \in BOOLEAN
    BY <1>1, LogFacts
  <1>3. IsFiniteSet(ClosedGarbage')
    BY <1>1, GarbageFinite DEF ClosedGarbage, GarbageLines
  <1>4. /\ append[c].pc = "write"
        /\ ev \in Event
        /\ ev.caller = c
        /\ ev # NoEvent
        /\ LineOf(c).ev = ev
        /\ LineOf(c) # Garbage
    BY LineOfEvent, NoEventAssumption DEF Writes, EventInv, Parses
  <1>5. PICK cut \in Cut \ {"nothing"}, pc \in {"resolved", "rejected"} :
            /\ append' = [append EXCEPT ![c].pc = pc]
            /\ pc = "resolved" => cut = "whole"
            /\ acked' = IF pc = "resolved" THEN acked \cup {ev} ELSE acked
            /\ \/ Merges(log, log')
               \/ Extends(log, log', IF cut = "partial" THEN Garbage ELSE LineOf(c))
            /\ log'.open = (cut # "whole")
    BY DEF Writes
  <1>6. append'[c].pc = pc
    BY <1>5 DEF AuditTypeInv, AuditTypeOK
  <1>7. CASE Merges(log, log')
    <2>1. /\ log.open
          /\ n > 0
          /\ Len(log'.lines) = n
          /\ \A i \in 1 .. n - 1 : log'.lines[i] = log.lines[i]
          /\ log'.lines[n] = Garbage
      BY <1>7 DEF Merges
    <2>2. ASSUME NEW e \in acked, OnFile(e)
          PROVE  OnFile(e)'
      <3>1. PICK i \in 1 .. n : log.lines[i].ev = e
        BY <1>2, <2>2 DEF OnFile
      <3>2. e # NoEvent /\ append[e.caller].pc = "resolved"
        BY <2>2, NoEventAssumption DEF AuditTypeInv, AuditTypeOK, EventInv
      <3>3. i # n
        BY <2>1, <3>1, <3>2 DEF LossInv
      <3> QED
        BY <1>2, <2>1, <3>1, <3>3 DEF OnFile
    <2>3. ClosedGarbage \subseteq ClosedGarbage' /\ n \notin ClosedGarbage
      BY <1>2, <2>1 DEF ClosedGarbage, GarbageLines, Parses
    <2>4. CASE pc = "resolved"
      <3>1. n \in ClosedGarbage'
        <4>1. log'.open = FALSE
          BY <1>5, <2>4
        <4> QED
          BY <1>2, <2>1, <4>1 DEF ClosedGarbage, GarbageLines, Parses
      <3>2. Missing' \subseteq Missing \cup {ev}
        BY <1>5, <2>2 DEF Missing
      <3> QED
        BY <1>3, <1>5, <2>3, <2>4, <3>1, <3>2, OneLossPerTornLine DEF LossInv
    <2>5. CASE pc = "rejected"
      <3>1. Missing' \subseteq Missing
        BY <1>5, <2>2, <2>5 DEF Missing
      <3>2. log'.lines[Len(log'.lines)].ev = NoEvent
        BY <2>1 DEF Garbage
      <3> QED
        BY <1>3, <2>3, <3>1, <3>2, OneLossPerTornLine DEF LossInv
    <2> QED
      BY <2>4, <2>5
  <1>8. CASE Extends(log, log', IF cut = "partial" THEN Garbage ELSE LineOf(c))
    <2> DEFINE written == IF cut = "partial" THEN Garbage ELSE LineOf(c)
    <2>1. /\ ~log.open
          /\ Len(log'.lines) = n + 1
          /\ \A i \in 1 .. n : log'.lines[i] = log.lines[i]
          /\ log'.lines[n + 1] = written
      BY <1>8 DEF Extends
    <2> HIDE DEF written
    <2>2. \A e : OnFile(e) => OnFile(e)'
      BY <1>2, <2>1 DEF OnFile
    <2>3. ClosedGarbage \subseteq ClosedGarbage'
      BY <1>2, <2>1 DEF ClosedGarbage, GarbageLines, Parses
    <2>4. pc = "resolved" => OnFile(ev)'
      BY <1>2, <1>4, <1>5, <2>1 DEF OnFile, written
    <2>5. Missing' \subseteq Missing
      BY <1>5, <2>2, <2>4 DEF Missing
    <2>6. log'.open => (log'.lines[Len(log'.lines)].ev # NoEvent =>
              append'[log'.lines[Len(log'.lines)].ev.caller].pc = "rejected")
      <3>1. CASE pc = "rejected"
        BY <1>4, <1>6, <2>1, <3>1 DEF written, Garbage
      <3>2. CASE pc = "resolved"
        BY <1>5, <3>2
      <3> QED
        BY <3>1, <3>2
    <2> QED
      BY <1>3, <2>3, <2>5, <2>6, OneLossPerTornLine DEF LossInv
  <1> QED
    BY <1>5, <1>7, <1>8

(* Every step keeps LossInv.                                               *)
LEMMA LossStep == AuditTypeInv /\ EventInv /\ LossInv /\ [AuditNext]_auditVars => LossInv'
  <1> SUFFICES ASSUME AuditTypeInv, EventInv, LossInv, [AuditNext]_auditVars PROVE LossInv'
    OBVIOUS
  <1>1. ASSUME UNCHANGED <<log, acked>>,
               \A c \in Caller : append[c].pc = "rejected" => append'[c] = append[c]
        PROVE  LossInv'
    <2>1. Missing' = Missing /\ ClosedGarbage' = ClosedGarbage
      BY <1>1 DEF Missing, ClosedGarbage, GarbageLines, OnFile, Parses
    <2>2. log.open => (log.lines[Len(log.lines)].ev # NoEvent =>
              log.lines[Len(log.lines)].ev.caller \in Caller)
      BY LogIsLog, LogFacts
    <2> QED
      BY <1>1, <2>1, <2>2 DEF LossInv
  <1>2. append \in [Caller -> Append_]
    BY DEF AuditTypeInv, AuditTypeOK, Append_
  <1>3. ASSUME NEW c \in Caller, StartAppend(c)
        PROVE  LossInv'
    BY <1>1, <1>2, <1>3, StartShape DEF Starts
  <1>4. ASSUME NEW c \in Caller, Prepares(c)
        PROVE  LossInv'
    BY <1>1, <1>2, <1>4 DEF Prepares
  <1>5. CASE Crash
    BY <1>1, <1>2, <1>5 DEF Crash, InFlight, Append_
  <1>6. CASE UNCHANGED auditVars
    BY <1>1, <1>6 DEF auditVars
  <1> QED
    BY <1>3, <1>4, <1>5, <1>6, WriteShape, LossWritten DEF AuditNext

(* A full disk or a crash may tear a line, and the next text runs into it; *)
(* but there are never more acknowledged events missing from the file than *)
(* lines that do not parse.                                                *)
THEOREM TornWritesCostOne == AuditSpec => []TornWriteCostsOneEvent
  <1>1. AuditInit => LossInv
    <2> SUFFICES ASSUME AuditInit PROVE LossInv
      OBVIOUS
    <2>1. Missing = {} /\ ClosedGarbage = {}
      BY EmptySeq DEF AuditInit, Missing, ClosedGarbage, GarbageLines, EmptyLog
    <2> QED
      BY <2>1, FS_EmptySet DEF AuditInit, LossInv, EmptyLog
  <1>2. AuditTypeInv /\ LossInv => TornWriteCostsOneEvent
    <2> SUFFICES ASSUME AuditTypeInv, LossInv PROVE TornWriteCostsOneEvent
      OBVIOUS
    <2>1. IsFiniteSet(GarbageLines)
      BY LogIsLog, GarbageFinite DEF GarbageLines
    <2>2. IsFiniteSet(ClosedGarbage) /\ Cardinality(ClosedGarbage) <= Cardinality(GarbageLines)
      BY <2>1, FS_Subset DEF ClosedGarbage
    <2>3. /\ Cardinality(Missing) \in Nat
          /\ Cardinality(ClosedGarbage) \in Nat
          /\ Cardinality(GarbageLines) \in Nat
      BY <2>1, <2>2, FS_CardinalityType DEF LossInv
    <2> QED
      BY <2>2, <2>3 DEF LossInv, TornWriteCostsOneEvent, Missing
  <1> QED
    BY <1>1, <1>2, LossStep, EventInvariant, AuditTypeInvariant, PTL DEF AuditSpec

-----------------------------------------------------------------------------
(* Where a line may chain to.                                              *)

ChainsTo(prev, n) == prev = NoHash \/ \E j \in 1 .. n : prev = log.lines[j].hash

(* The hash an append read stays the hash of a line until it writes: lines *)
(* are only added.                                                         *)
ChainInv ==
    (AllChained /\ GarbageLines = {}) =>
        /\ \A i \in DOMAIN log.lines : ChainsTo(log.lines[i].prev, i - 1)
        /\ \A c \in Caller : append[c].pc = "write" => ChainsTo(append[c].prev, Len(log.lines))

(* A step that writes nothing, and readies no append but one that has just *)
(* read the last hash.                                                     *)
LEMMA ChainKept ==
    ASSUME AuditTypeInv, ChainInv, UNCHANGED <<integrity, log>>,
           \A c \in Caller : append'[c].pc = "write" =>
               \/ append'[c] = append[c]
               \/ integrity[c] = "hash_chain" =>
                     ReadLast(log.lines) = [ok |-> TRUE, hash |-> append'[c].prev]
    PROVE  ChainInv'
  <1> SUFFICES ASSUME AllChained, GarbageLines = {}
               PROVE  /\ \A i \in DOMAIN log.lines : ChainsTo(log.lines[i].prev, i - 1)'
                      /\ \A c \in Caller : append'[c].pc = "write" =>
                            ChainsTo(append[c].prev, Len(log.lines))'
    <2>1. AllChained' = AllChained /\ GarbageLines' = GarbageLines
      BY DEF AllChained, GarbageLines, Parses
    <2> QED
      BY <2>1 DEF ChainInv
  <1>1. Len(log.lines) \in Nat
    BY LogIsLog, LogFacts
  <1>2. ASSUME NEW c \in Caller, append'[c].pc = "write"
        PROVE  ChainsTo(append'[c].prev, Len(log.lines))
    <2>1. CASE append'[c] = append[c]
      BY <1>2, <2>1 DEF ChainInv
    <2>2. CASE ReadLast(log.lines) = [ok |-> TRUE, hash |-> append'[c].prev]
      <3>1. CASE log.lines = <<>>
        BY <2>2, <3>1 DEF ReadLast, ChainsTo
      <3>2. CASE log.lines # <<>>
        <4>1. append'[c].prev = log.lines[Len(log.lines)].hash
          BY <2>2, <3>2 DEF ReadLast
        <4>2. Len(log.lines) \in 1 .. Len(log.lines)
          BY <1>1, <3>2, EmptySeq DEF AuditTypeInv, AuditTypeOK
        <4> QED
          BY <4>1, <4>2 DEF ChainsTo
      <3> QED
        BY <3>1, <3>2
    <2> QED
      BY <1>2, <2>1, <2>2 DEF AllChained
  <1> QED
    BY <1>2 DEF ChainInv, ChainsTo

(* A write that tears no line adds one that chains to an earlier one.      *)
LEMMA ChainWritten ==
    ASSUME AuditTypeInv, ChainInv, NEW c \in Caller, Writes(c)
    PROVE  ChainInv'
  <1> SUFFICES ASSUME AllChained, GarbageLines' = {}
               PROVE  /\ \A i \in DOMAIN log'.lines : ChainsTo(log.lines[i].prev, i - 1)'
                      /\ \A d \in Caller : append'[d].pc = "write" =>
                            ChainsTo(append[d].prev, Len(log.lines))'
    BY DEF ChainInv, AllChained, Writes
  <1> PICK n \in Nat : n = Len(log.lines)
    BY LogIsLog, LogFacts
  <1>1. /\ DOMAIN log.lines = 1 .. n
        /\ DOMAIN log'.lines = 1 .. Len(log'.lines)
        /\ \A i \in DOMAIN log'.lines : log'.lines[i] # Garbage
    BY LogIsLog, LogFacts DEF Writes, GarbageLines, Parses
  <1>2. PICK written \in {Garbage, LineOf(c)} : Merges(log, log') \/ Extends(log, log', written)
    BY DEF Writes
  <1>3. Extends(log, log', LineOf(c))
    BY <1>1, <1>2 DEF Merges, Extends
  <1>4. /\ Len(log'.lines) = n + 1
        /\ \A i \in 1 .. n : log'.lines[i] = log.lines[i]
        /\ log'.lines[n + 1].prev = append[c].prev
    BY <1>3 DEF Extends, LineOf, ChainedLine, AllChained
  <1>5. GarbageLines = {}
    BY <1>1, <1>4 DEF GarbageLines, Parses
  <1>6. /\ append[c].pc = "write"
        /\ append'[c].pc # "write"
        /\ \A d \in Caller \ {c} : append'[d] = append[d]
    BY DEF Writes, AuditTypeInv, AuditTypeOK
  <1>7. ASSUME NEW prev, NEW m \in 0 .. n, ChainsTo(prev, m)
        PROVE  prev = NoHash \/ \E j \in 1 .. m : prev = log'.lines[j].hash
    BY <1>4, <1>7 DEF ChainsTo
  <1>8. ASSUME NEW i \in 1 .. n + 1
        PROVE  ChainsTo(log.lines[i].prev, i - 1)'
    <2>1. CASE i \in 1 .. n
      <3>1. i - 1 \in 0 .. n /\ ChainsTo(log.lines[i].prev, i - 1)
        BY <1>1, <1>5, <2>1 DEF ChainInv
      <3> QED
        BY <1>4, <1>7, <2>1, <3>1 DEF ChainsTo
    <2>2. CASE i = n + 1
      <3>1. ChainsTo(append[c].prev, n) /\ i - 1 = n
        BY <1>5, <1>6, <2>2 DEF ChainInv
      <3>2. \/ append[c].prev = NoHash
            \/ \E j \in 1 .. i - 1 : append[c].prev = log'.lines[j].hash
        BY <1>7, <3>1
      <3> QED
        BY <1>4, <2>2, <3>2 DEF ChainsTo
    <2> QED
      BY <2>1, <2>2
  <1>9. ASSUME NEW d \in Caller, append'[d].pc = "write"
        PROVE  ChainsTo(append[d].prev, Len(log.lines))'
    <2>1. append'[d].prev = append[d].prev /\ ChainsTo(append[d].prev, n)
      BY <1>5, <1>6, <1>9 DEF ChainInv
    <2>2. \/ append[d].prev = NoHash
          \/ \E j \in 1 .. n : append[d].prev = log'.lines[j].hash
      BY <1>7, <2>1
    <2> QED
      BY <1>4, <2>1, <2>2 DEF ChainsTo
  <1> QED
    BY <1>1, <1>4, <1>8, <1>9

(* Every step keeps ChainInv.                                              *)
LEMMA ChainStep == AuditTypeInv /\ ChainInv /\ [AuditNext]_auditVars => ChainInv'
  <1> SUFFICES ASSUME AuditTypeInv, ChainInv, [AuditNext]_auditVars PROVE ChainInv'
    OBVIOUS
  <1>1. append \in [Caller -> Append_]
    BY DEF AuditTypeInv, AuditTypeOK, Append_
  <1>2. ASSUME NEW c \in Caller, StartAppend(c)
        PROVE  ChainInv'
    BY <1>1, <1>2, StartShape, ChainKept DEF Starts
  <1>3. ASSUME NEW c \in Caller, Prepares(c)
        PROVE  ChainInv'
    BY <1>1, <1>3, ChainKept DEF Prepares
  <1>4. CASE Crash
    BY <1>1, <1>4, ChainKept DEF Crash, InFlight, Append_
  <1>5. CASE UNCHANGED auditVars
    BY <1>5, ChainKept DEF auditVars
  <1> QED
    BY <1>2, <1>3, <1>4, <1>5, WriteShape, ChainWritten DEF AuditNext

(* Appends that interleave may fork the chain, but with no torn write each *)
(* line of a hash_chain file starts it or chains to a line before it: the  *)
(* hash an append has read is never that of a line that goes away.         *)
THEOREM LinesChainBackwards == AuditSpec => []EveryLineChainsBackwards
  <1>1. AuditInit => ChainInv
    BY NoAppendType, EmptySeq DEF AuditInit, ChainInv, EmptyLog
  <1>2. ChainInv => EveryLineChainsBackwards
    BY DEF ChainInv, ChainsTo, EveryLineChainsBackwards
  <1> QED
    BY <1>1, <1>2, ChainStep, AuditTypeInvariant, PTL DEF AuditSpec

-----------------------------------------------------------------------------
(* Appends that do not overlap.                                            *)

(* While no two appends overlap, at most one is in flight; a hash_chain    *)
(* append that is ready to write still holds the hash of the last line;    *)
(* and the file verifies, up to a last line that is torn.                  *)
SerialInv ==
    ~overlapped =>
        /\ \A c, d \in Caller : InFlight(c) /\ InFlight(d) => c = d
        /\ \A c \in Caller : (append[c].pc = "write" /\ integrity[c] = "hash_chain") =>
              ReadLast(log.lines) = [ok |-> TRUE, hash |-> append[c].prev]
        /\ ChainedLinesComeFirst
        /\ AllChained => \A i \in DOMAIN log.lines :
              LineVerifies(log.lines, i) \/ (i = Len(log.lines) /\ log.lines[i] = Garbage)

(* No key of an event is named "hash", so its digest is never null.        *)
LEMMA DigestIsAHash ==
    ASSUME NEW ev \in Event, NEW prev
    PROVE  Digest(ev, prev) # NoHash
  <1>1. Canonical(ev) \in Event
    BY DEF Canonical, Event
  <1> QED
    BY <1>1, NoEventAssumption DEF Digest, NoHash

(* A line's verdict depends on the line and the one before it.             *)
LEMMA VerdictIsLocal ==
    ASSUME NEW lines, NEW more, NEW i,
           more[i] = lines[i],
           i = 1 \/ more[i - 1] = lines[i - 1]
    PROVE  LineVerifies(more, i) <=> LineVerifies(lines, i)
  BY DEF LineVerifies

(* A step that writes nothing, starts no append beside another, and        *)
(* readies no hash_chain append but one that has just read the last hash.  *)
LEMMA SerialKept ==
    ASSUME SerialInv, UNCHANGED <<integrity, log>>,
           ~overlapped' => /\ ~overlapped
                           /\ \A c, d \in Caller :
                                 append'[c].pc \in {"mkdir", "read", "write"}
                                 /\ append'[d].pc \in {"mkdir", "read", "write"} => c = d,
           \A c \in Caller : (append'[c].pc = "write" /\ integrity[c] = "hash_chain") =>
               \/ append'[c] = append[c]
               \/ ReadLast(log.lines) = [ok |-> TRUE, hash |-> append'[c].prev]
    PROVE  SerialInv'
  <1>1. /\ AllChained' = AllChained
        /\ ChainedLinesComeFirst' = (~overlapped' => \A i, j \in DOMAIN log.lines :
               (i < j /\ HasIntegrity(log.lines[j])) => HasIntegrity(log.lines[i]))
    BY DEF AllChained, ChainedLinesComeFirst
  <1> QED
    BY <1>1 DEF SerialInv, InFlight, ChainedLinesComeFirst

(* What a hash_chain append finds at the end of the file when it writes.   *)
LEMMA HashInHand ==
    ASSUME NEW l \in Log, NEW prev, ReadLast(l.lines) = [ok |-> TRUE, hash |-> prev]
    PROVE  /\ Len(l.lines) = 0 => prev = NoHash
           /\ Len(l.lines) # 0 => /\ HasIntegrity(l.lines[Len(l.lines)])
                                  /\ prev = l.lines[Len(l.lines)].hash
  <1>1. l.lines \in Seq(Line)
    BY DEF Log
  <1>2. l.lines = <<>> <=> Len(l.lines) = 0
    BY <1>1, EmptySeq
  <1>3. CASE l.lines = <<>>
    BY <1>2, <1>3 DEF ReadLast
  <1>4. CASE l.lines # <<>>
    <2>1. HasIntegrity(l.lines[Len(l.lines)]) = TRUE /\ prev = l.lines[Len(l.lines)].hash
      BY <1>4 DEF ReadLast
    <2> QED
      BY <1>2, <1>4, <2>1
  <1> QED
    BY <1>3, <1>4

(* The only writer there is adds a line that verifies, or tears the last.  *)
LEMMA SerialWritten ==
    ASSUME AuditTypeInv, SerialInv, NEW c \in Caller, Writes(c)
    PROVE  SerialInv'
  <1> SUFFICES ASSUME ~overlapped
               PROVE  /\ \A d, e \in Caller : (InFlight(d) /\ InFlight(e))' => d = e
                      /\ \A d \in Caller : append'[d].pc # "write"
                      /\ ChainedLinesComeFirst'
                      /\ AllChained => \A i \in DOMAIN log'.lines :
                            \/ LineVerifies(log'.lines, i)
                            \/ i = Len(log'.lines) /\ log'.lines[i] = Garbage
    <2>1. overlapped' = overlapped /\ AllChained' = AllChained
      BY DEF Writes, AllChained
    <2> QED
      BY <2>1 DEF SerialInv
  <1> PICK n \in Nat : n = Len(log.lines)
    BY LogIsLog, LogFacts
  <1>1. log \in Log /\ DOMAIN log.lines = 1 .. n /\ DOMAIN log'.lines = 1 .. Len(log'.lines)
    BY LogIsLog, LogFacts DEF Writes
  <1>2. PICK written \in {Garbage, LineOf(c)} : Merges(log, log') \/ Extends(log, log', written)
    BY DEF Writes
  <1>3. /\ append[c].pc = "write"
        /\ append'[c].pc \in {"resolved", "rejected"}
        /\ append[c].ev \in Event
        /\ \A d \in Caller \ {c} : append'[d] = append[d]
    BY DEF Writes, AuditTypeInv, AuditTypeOK
  <1>4. \A d \in Caller : append'[d].pc \notin {"mkdir", "read", "write"}
    BY <1>3 DEF SerialInv, InFlight
  <1>5. integrity[c] = "hash_chain" =>
            /\ n = 0 => append[c].prev = NoHash
            /\ n # 0 => HasIntegrity(log.lines[n]) /\ append[c].prev = log.lines[n].hash
    BY <1>1, <1>3, HashInHand DEF SerialInv
  <1>6. ~HasIntegrity(Garbage)
    BY DEF HasIntegrity, Garbage
  <1>7. ASSUME NEW i \in DOMAIN log'.lines, NEW j \in DOMAIN log'.lines,
               i < j, HasIntegrity(log'.lines[j])
        PROVE  HasIntegrity(log'.lines[i])
    <2>1. \A p, q \in 1 .. n : p < q /\ HasIntegrity(log.lines[q]) => HasIntegrity(log.lines[p])
      BY <1>1 DEF SerialInv, ChainedLinesComeFirst
    <2>2. CASE Merges(log, log')
      BY <1>1, <1>6, <1>7, <2>1, <2>2 DEF Merges
    <2>3. CASE Extends(log, log', written)
      <3>1. /\ Len(log'.lines) = n + 1
            /\ \A p \in 1 .. n : log'.lines[p] = log.lines[p]
            /\ log'.lines[n + 1] = written
        BY <2>3 DEF Extends
      <3>2. CASE j \in 1 .. n
        BY <1>1, <1>7, <2>1, <3>1, <3>2
      <3>3. CASE j = n + 1
        <4>1. HasIntegrity(LineOf(c))
          BY <1>2, <1>6, <1>7, <3>1, <3>3
        <4>2. integrity[c] = "hash_chain"
          BY <4>1 DEF LineOf, PlainLine, HasIntegrity
        <4>3. i \in 1 .. n /\ HasIntegrity(log.lines[n])
          BY <1>1, <1>5, <1>7, <3>1, <3>3, <4>2
        <4>4. HasIntegrity(log.lines[i])
          BY <2>1, <4>3
        <4> QED
          BY <3>1, <4>3, <4>4
      <3> QED
        BY <1>1, <3>1, <3>2, <3>3
    <2> QED
      BY <1>2, <2>2, <2>3
  <1>8. ASSUME AllChained, NEW i \in DOMAIN log'.lines
        PROVE  \/ LineVerifies(log'.lines, i)
               \/ i = Len(log'.lines) /\ log'.lines[i] = Garbage
    <2>1. integrity[c] = "hash_chain"
      BY <1>8 DEF AllChained
    <2>2. ASSUME NEW p \in 1 .. n
          PROVE  LineVerifies(log.lines, p)
      BY <1>1, <1>5, <1>6, <1>8, <2>1 DEF SerialInv
    <2>3. CASE Merges(log, log')
      <3>1. CASE i < n
        <4>1. i \in 1 .. n - 1 /\ (i = 1 \/ i - 1 \in 1 .. n - 1)
          BY <1>1, <1>8, <3>1
        <4>2. log'.lines[i] = log.lines[i] /\ (i = 1 \/ log'.lines[i - 1] = log.lines[i - 1])
          BY <2>3, <4>1 DEF Merges
        <4> QED
          BY <2>2, <4>1, <4>2, VerdictIsLocal
      <3>2. CASE i = n
        BY <2>3, <3>2 DEF Merges
      <3> QED
        BY <1>1, <1>8, <2>3, <3>1, <3>2 DEF Merges
    <2>4. CASE Extends(log, log', written)
      <3>1. /\ Len(log'.lines) = n + 1
            /\ \A p \in 1 .. n : log'.lines[p] = log.lines[p]
            /\ log'.lines[n + 1] = written
        BY <2>4 DEF Extends
      <3>2. CASE i \in 1 .. n
        <4>1. i = 1 \/ i - 1 \in 1 .. n
          BY <3>2
        <4> QED
          BY <2>2, <3>1, <3>2, <4>1, VerdictIsLocal
      <3>3. CASE i = n + 1 /\ written = LineOf(c)
        <4>1. log'.lines[i] = ChainedLine(append[c].ev, append[c].prev)
          BY <2>1, <3>1, <3>3 DEF LineOf
        <4>2. /\ Parses(log'.lines[i])
              /\ HasIntegrity(log'.lines[i])
              /\ log'.lines[i].hash = Digest(log'.lines[i].ev, log'.lines[i].prev)
          BY <1>3, <4>1, NoEventAssumption, DigestIsAHash
          DEF ChainedLine, Parses, HasIntegrity, Garbage
        <4>3. log'.lines[i].prev = IF i = 1 THEN NoHash ELSE log'.lines[i - 1].hash
          <5>1. log'.lines[i].prev = append[c].prev
            BY <4>1 DEF ChainedLine
          <5>2. CASE n = 0
            BY <1>5, <2>1, <3>3, <5>1, <5>2
          <5>3. CASE n # 0
            BY <1>5, <2>1, <3>1, <3>3, <5>1, <5>3
          <5> QED
            BY <5>2, <5>3
        <4> QED
          BY <4>2, <4>3 DEF LineVerifies
      <3>4. CASE i = n + 1 /\ written = Garbage
        BY <3>1, <3>4
      <3> QED
        BY <1>1, <1>2, <3>1, <3>2, <3>3, <3>4
    <2> QED
      BY <1>2, <2>3, <2>4
  <1>9. ChainedLinesComeFirst'
    BY <1>7 DEF ChainedLinesComeFirst
  <1> QED
    BY <1>4, <1>8, <1>9 DEF InFlight

(* Every step keeps SerialInv.                                             *)
LEMMA SerialStep == AuditTypeInv /\ SerialInv /\ [AuditNext]_auditVars => SerialInv'
  <1> SUFFICES ASSUME AuditTypeInv, SerialInv, [AuditNext]_auditVars PROVE SerialInv'
    OBVIOUS
  <1>1. append \in [Caller -> Append_] /\ overlapped \in BOOLEAN
    BY DEF AuditTypeInv, AuditTypeOK, Append_
  <1>2. ASSUME NEW c \in Caller, StartAppend(c)
        PROVE  SerialInv'
    <2>1. Starts(c)
      BY <1>2, StartShape
    <2>2. ~overlapped' => ~overlapped /\ \A d \in Caller : ~InFlight(d)
      BY <1>1, <2>1 DEF Starts
    <2>3. \A d \in Caller \ {c} : append'[d] = append[d]
      BY <1>1, <2>1 DEF Starts
    <2>4. append'[c].pc = "mkdir"
      BY <1>1, <2>1 DEF Starts
    <2> QED
      BY <2>1, <2>2, <2>3, <2>4, SerialKept DEF Starts, InFlight
  <1>3. ASSUME NEW c \in Caller, Prepares(c)
        PROVE  SerialInv'
    <2>1. /\ \A d \in Caller \ {c} : append'[d] = append[d]
          /\ InFlight(c)
          /\ UNCHANGED <<integrity, log, overlapped>>
      BY <1>1, <1>3 DEF Prepares, InFlight
    <2>2. (append'[c].pc = "write" /\ integrity[c] = "hash_chain") =>
              ReadLast(log.lines) = [ok |-> TRUE, hash |-> append'[c].prev]
      BY <1>1, <1>3 DEF Prepares
    <2>3. ~overlapped => \A d \in Caller : InFlight(d) => d = c
      BY <2>1 DEF SerialInv
    <2> QED
      BY <2>1, <2>2, <2>3, SerialKept DEF InFlight
  <1>4. CASE Crash
    <2>1. \A c \in Caller : append'[c].pc \notin {"mkdir", "read", "write"}
      BY <1>1, <1>4 DEF Crash, InFlight, Append_
    <2> QED
      BY <1>4, <2>1, SerialKept DEF Crash
  <1>5. CASE UNCHANGED auditVars
    BY <1>5, SerialKept DEF auditVars, SerialInv, InFlight
  <1> QED
    BY <1>2, <1>3, <1>4, <1>5, WriteShape, SerialWritten DEF AuditNext

(* SerialInv is an invariant.                                              *)
LEMMA SerialInvariant == AuditSpec => []SerialInv
  <1>1. AuditInit => SerialInv
    <2> SUFFICES ASSUME AuditInit PROVE SerialInv
      OBVIOUS
    <2>1. DOMAIN log.lines = {}
      BY DEF AuditInit, EmptyLog
    <2>2. \A c \in Caller : append[c].pc = "idle"
      BY NoAppendType DEF AuditInit
    <2> QED
      BY <2>1, <2>2 DEF SerialInv, InFlight, ChainedLinesComeFirst
  <1> QED
    BY <1>1, SerialStep, AuditTypeInvariant, PTL DEF AuditSpec

(* When no two appends overlap, every hash_chain file verifies up to a     *)
(* torn last line, whatever I/O fails and wherever the process stops.      *)
THEOREM SerialLogsVerify == AuditSpec => []SerialLogVerifies
  <1>1. AuditTypeInv /\ SerialInv => SerialLogVerifies
    <2> SUFFICES ASSUME AuditTypeInv, SerialInv, AllChained, ~overlapped,
                        ~Verify(log.lines).valid
                 PROVE  /\ log.lines[Len(log.lines)] = Garbage
                        /\ Verify(log.lines).firstInvalidLine = Len(log.lines)
      BY DEF SerialLogVerifies
    <2> PICK n \in Nat : n = Len(log.lines) /\ DOMAIN log.lines = 1 .. n
      BY LogIsLog, LogFacts
    <2>1. PICK i \in 1 .. n : ~LineVerifies(log.lines, i)
      BY DEF Verify
    <2>2. i = n /\ log.lines[n] = Garbage
      BY <2>1 DEF SerialInv
    <2>3. \A j \in 1 .. n - 1 : LineVerifies(log.lines, j)
      BY DEF SerialInv
    <2> DEFINE First(k) == /\ ~LineVerifies(log.lines, k)
                           /\ \A j \in 1 .. k - 1 : LineVerifies(log.lines, j)
    <2>4. First(n) /\ \A k \in 1 .. n : First(k) => k = n
      BY <2>1, <2>2, <2>3
    <2>5. Verify(log.lines).firstInvalidLine = CHOOSE k \in DOMAIN log.lines : First(k)
      BY <2>1 DEF Verify
    <2> HIDE DEF First
    <2>6. (CHOOSE k \in 1 .. n : First(k)) = n
      BY <2>1, <2>2, <2>4
    <2> QED
      BY <2>2, <2>5, <2>6
  <1> QED
    BY <1>1, SerialInvariant, AuditTypeInvariant, PTL

(* When no two appends overlap, no hash_chain line ever follows a line     *)
(* without integrity metadata or a torn one, whichever loggers share the   *)
(* file: append fails closed there.                                        *)
THEOREM ChainEndsAtFirstPlainLine == AuditSpec => []ChainedLinesComeFirst
  <1>1. SerialInv => ChainedLinesComeFirst
    BY DEF SerialInv, ChainedLinesComeFirst
  <1> QED
    BY <1>1, SerialInvariant, PTL

=============================================================================
