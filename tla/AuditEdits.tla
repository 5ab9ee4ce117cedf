------------------------------ MODULE AuditEdits ------------------------------
(***************************************************************************)
(* A hash_chain log that one logger writes and that something else edits   *)
(* between appends: packages/local-audit's append against verifyAuditLog.  *)
(* An edit changes the stored lines but computes no hash of its own, the   *)
(* case docs/audit-integrity.md sets out to detect; it may put any hash    *)
(* the logger ever wrote into a line.                                      *)
(***************************************************************************)
EXTENDS AuditChain, FiniteSets

CONSTANTS
    MaxEvents,      \* bound on the events the logger appends
    MaxEdits,       \* bound on the edits
    Content         \* what an event's fields, and its keys named "hash", hold

ASSUME AuditEditsAssumption ==
    /\ MaxEvents \in Nat \ {0}
    /\ MaxEdits \in Nat
    /\ Content # {}

VARIABLES
    stored,     \* the lines of the file
    written,    \* every line the logger ever appended, oldest first (history)
    edits,      \* the number of edits so far
    at          \* the line the last edit touched (history)

vars == <<stored, written, edits, at>>

(* What a logger hashes is an event, less its keys named "hash".           *)
ASSUME NoEventAssumption ==
    /\ NoEvent \notin [id: Nat, args: Content, hash: Content]
    /\ NoEvent \notin [id: Nat, args: Content]

Event(id, body, keyed) == [id |-> id, args |-> body, hash |-> keyed]

KnownHash == {written[i].hash : i \in DOMAIN written} \cup {NoHash}

RemoveLine(lines, i) == [j \in 1 .. Len(lines) - 1 |-> lines[IF j < i THEN j ELSE j + 1]]

-----------------------------------------------------------------------------
Init ==
    /\ stored = <<>>
    /\ written = <<>>
    /\ edits = 0
    /\ at = 0

(* createLocalAuditLogger().append in hash_chain mode, run to its end: the *)
(* id is a fresh UUID.  It throws, and writes nothing, where ReadLast does.*)
AppendEvent ==
    /\ Len(written) < MaxEvents
    /\ ReadLast(stored).ok
    /\ \E body, keyed \in Content :
          LET line == ChainedLine(Event(Len(written) + 1, body, keyed), ReadLast(stored).hash)
          IN  /\ stored' = Append(stored, line)
              /\ written' = Append(written, line)
    /\ UNCHANGED <<edits, at>>

Edit(i, lines) ==
    /\ edits < MaxEdits
    /\ lines # stored
    /\ stored' = lines
    /\ edits' = edits + 1
    /\ at' = i
    /\ UNCHANGED written

EditContent(i) ==
    /\ Parses(stored[i])
    /\ \E body \in Content : Edit(i, [stored EXCEPT ![i].ev.args = body])

EditHashKeyed(i) ==
    /\ Parses(stored[i])
    /\ \E keyed \in Content : Edit(i, [stored EXCEPT ![i].ev.hash = keyed])

EditPreviousHash(i) ==
    /\ Parses(stored[i])
    /\ \E h \in KnownHash : Edit(i, [stored EXCEPT ![i].prev = h])

EditHash(i) ==
    /\ Parses(stored[i])
    /\ \E h \in KnownHash : Edit(i, [stored EXCEPT ![i].hash = h])

DeleteLine(i) == Edit(i, RemoveLine(stored, i))

SwapLines(i) ==
    /\ i < Len(stored)
    /\ Edit(i, [stored EXCEPT ![i] = stored[i + 1], ![i + 1] = stored[i]])

RestoreLine(i) ==    \* put any line the logger wrote, perhaps long deleted, at i
    \E w \in DOMAIN written : Edit(i, [stored EXCEPT ![i] = written[w]])

GarbleLine(i) == Edit(i, [stored EXCEPT ![i] = Garbage])

Next ==
    \/ AppendEvent
    \/ \E i \in DOMAIN stored :
          \/ EditContent(i)
          \/ EditHashKeyed(i)
          \/ EditPreviousHash(i)
          \/ EditHash(i)
          \/ DeleteLine(i)
          \/ SwapLines(i)
          \/ RestoreLine(i)
          \/ GarbleLine(i)

Spec == Init /\ [][Next]_vars

-----------------------------------------------------------------------------
SameButHashKeys(line, original) ==
    /\ Parses(line)
    /\ Canonical(line.ev) = Canonical(original.ev)
    /\ line.prev = original.prev
    /\ line.hash = original.hash

(* verifyAuditLog raises no false alarm: a log only the logger touched is  *)
(* valid, whatever its length.                                             *)
UneditedLogVerifies == edits = 0 => Verify(stored).valid

(* However many edits were made, and however many events were appended     *)
(* onto an edited file since, a log that verifies holds only lines the     *)
(* logger wrote, unchanged outside keys named "hash", in the order it      *)
(* wrote them.  (Lines may be missing from the end of what was written at  *)
(* some time: verifyAuditLog does not see a deleted tail.)                 *)
VerifiedLinesAreAuthentic ==
    Verify(stored).valid =>
        /\ \A i \in DOMAIN stored :
              \E w \in DOMAIN written : SameButHashKeys(stored[i], written[w])
        /\ \A i, j \in DOMAIN stored : i < j => stored[i].ev.id < stored[j].ev.id

(* firstInvalidLine points at the damage: after one edit of a log, a log   *)
(* that does not verify is reported at the edited line or the one after    *)
(* it, which holds the hash of the edited line.                            *)
FirstInvalidLineLocatesEdit ==
    (edits = 1 /\ ~Verify(stored).valid) => Verify(stored).firstInvalidLine \in {at, at + 1}

(* docs/audit-integrity.md lists "modified event content" under what       *)
(* verification detects: a log that verifies holds exactly the lines the   *)
(* logger wrote.  A value under a key named "hash" can be changed freely.  *)
ModifiedContentDetected ==
    Verify(stored).valid =>
        \A i \in DOMAIN stored : \E w \in DOMAIN written : stored[i] = written[w]

(* The stored lines are lines, and the bounds hold.                        *)
TypeOK ==
    /\ edits \in 0 .. MaxEdits
    /\ at \in 0 .. MaxEvents
    /\ Len(written) <= MaxEvents
    /\ Len(stored) <= MaxEvents
    /\ \A i \in DOMAIN stored :
          /\ stored[i].prev \in KnownHash
          /\ stored[i].hash \in KnownHash
          /\ stored[i].ev = NoEvent \/ stored[i].ev.id \in DOMAIN written

=============================================================================
