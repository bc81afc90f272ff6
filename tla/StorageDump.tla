------------------------------ MODULE StorageDump ------------------------------
(***************************************************************************)
(* The storage dump of src/src/backend.rs: encode_storage() writes the     *)
(* provider's key-value storage into one byte string, decode_storage()     *)
(* reads it back.  A cell stands for eight bytes of the dump: a length is  *)
(* one cell, a key or a value a sequence of them.                          *)
(*                                                                         *)
(* The dump lies in the application's blob between an export and a         *)
(* restore, and may come back torn: cut short, with something after it, or *)
(* with a cell changed.                                                    *)
(***************************************************************************)
EXTENDS Naturals, SequencesExt

CONSTANTS
    Keys, Values,   \* keys and values, as sequences of cells
    Cells,          \* what a damaged cell may hold
    Widths          \* usize::MAX + 1 on the platforms considered

\* The dump of an empty storage fits.
ASSUME WidthsAssumption == \A width \in Widths : width \in Nat /\ width > 2
ASSUME CellsAssumption == Keys \cup Values \subseteq Seq(Nat) /\ Cells \subseteq Nat

VARIABLES
    usize,      \* the platform
    storage,    \* the storage of the provider
    dump,       \* the dump in the blob
    saved,      \* the storage the dump was made of
    damage      \* what became of the dump since

vars == <<usize, storage, dump, saved, damage>>

\* A key that comes again replaces the earlier value.
Inserted(map, key, value) ==
    [other \in DOMAIN map \cup {key} |-> IF other = key THEN value ELSE map[other]]

-----------------------------------------------------------------------------
(* Encoding: the number of entries, then for each the two lengths, the key and the value. *)

\* Mutant of Entry: the lengths swapped.
EntrySwapped(key, value) == <<Len(value), Len(key)>> \o key \o value

Entry(key, value) == <<Len(key), Len(value)>> \o key \o value

\* A hash map is written in any order.
Encodings(map) ==
    {<<Len(order)>> \o FlattenSeq([i \in DOMAIN order |-> Entry(order[i], map[order[i]])]) :
        order \in SetToSeqs(DOMAIN map)}
-----------------------------------------------------------------------------
(* Decoding.  A reader is what was read up to a cursor, or Refused. *)

Refused == [refused |-> TRUE]
Reader(cursor, map) == [refused |-> FALSE, cursor |-> cursor, map |-> map]

AsUsize(n) == n % usize
SaturatingAdd(m, n) == IF m + n < usize THEN m + n ELSE usize - 1

\* Mutant of Within: the last cell of the dump is never reached.
WithinShort(cursor, length) == SaturatingAdd(cursor, length) < Len(dump)

\* The cells from a cursor on, when the dump has as many.
Within(cursor, length) == SaturatingAdd(cursor, length) <= Len(dump)
Slice(cursor, length) == SubSeq(dump, cursor + 1, SaturatingAdd(cursor, length))

\* One entry.
ReadEntry(at) ==
    IF ~ Within(at.cursor, 2) THEN Refused
    ELSE LET keyLen == AsUsize(dump[at.cursor + 1])
             valueLen == AsUsize(dump[at.cursor + 2])
             key == at.cursor + 2
             value == SaturatingAdd(key, keyLen)
         IN IF Within(key, keyLen) /\ Within(value, valueLen)
            THEN Reader(SaturatingAdd(value, valueLen),
                        Inserted(at.map, Slice(key, keyLen), Slice(value, valueLen)))
            ELSE Refused

Entries(count) ==
    LET read[n \in 0 .. count] ==
            IF n = 0 THEN Reader(1, <<>>)
            ELSE IF read[n - 1].refused THEN Refused ELSE ReadEntry(read[n - 1])
    IN read[count]

\* Mutant of Decoded: what follows the last entry is not looked at.
DecodedLoosely == IF ~ Within(0, 1) THEN Refused ELSE Entries(AsUsize(dump[1]))

\* What is left after the last entry makes the dump invalid.
Decoded ==
    IF ~ Within(0, 1) THEN Refused
    ELSE LET end == Entries(AsUsize(dump[1]))
         IN IF end.refused \/ end.cursor # Len(dump) THEN Refused ELSE end
-----------------------------------------------------------------------------
\* No byte string in memory is as long as usize::MAX; one that would be aborts its writer.
Fits(bytes) == Len(bytes) < usize - 1

Init ==
    /\ usize \in Widths
    /\ storage = <<>>
    /\ dump \in Encodings(storage)
    /\ saved = storage
    /\ damage = "none"

\* OpenMLS writes and deletes entries.
Write(key, value) ==
    /\ storage' = Inserted(storage, key, value)
    /\ UNCHANGED <<usize, dump, saved, damage>>
Delete(key) ==
    /\ key \in DOMAIN storage
    /\ storage' = [other \in DOMAIN storage \ {key} |-> storage[other]]
    /\ UNCHANGED <<usize, dump, saved, damage>>

\* Bound: of what a damaged dump restored, only the given keys and values go on.
Export ==
    /\ DOMAIN storage \subseteq Keys
    /\ Range(storage) \subseteq Values
    /\ dump' \in Encodings(storage) /\ Fits(dump')
    /\ saved' = storage
    /\ damage' = "none"
    /\ UNCHANGED <<usize, storage>>

\* Between the export and the restore, on the application's side.
Tear ==
    /\ damage = "none"
    /\ \/ \E length \in 0 .. Len(dump) - 1 : dump' = SubSeq(dump, 1, length)
       \/ \E cell \in Cells : dump' = Append(dump, cell) /\ Fits(dump')
    /\ damage' = "torn"
    /\ UNCHANGED <<usize, storage, saved>>
Change ==
    /\ damage = "none"
    /\ \E i \in DOMAIN dump, cell \in Cells : cell # dump[i] /\ dump' = [dump EXCEPT ![i] = cell]
    /\ damage' = "changed"
    /\ UNCHANGED <<usize, storage, saved>>

\* A refused dump is an error, and leaves the storage as it was.
Restore ==
    /\ ~ Decoded.refused
    /\ storage' = Decoded.map
    /\ UNCHANGED <<usize, dump, saved, damage>>

Next ==
    \/ \E key \in Keys : Delete(key) \/ \E value \in Values : Write(key, value)
    \/ Export \/ Tear \/ Change \/ Restore

Spec == Init /\ [][Next]_vars
-----------------------------------------------------------------------------
(* Properties. *)

\* In whatever order the storage was written out, and whatever usize is, a dump that came
\* back as it was reads as the storage it was made of.
RoundTrip == damage = "none" => ~ Decoded.refused /\ Decoded.map = saved

\* A dump that lost its end, or has something after it, is refused: no part of it passes
\* for a whole storage.
TornRefused == damage = "torn" => Decoded.refused

\* The reader accepts the byte strings of the format and no other, damaged ones included:
\* a count, and places to cut the rest into as many entries, each of the lengths it says.
EntryEnd(start) == start + 2 + AsUsize(dump[start + 1]) + AsUsize(dump[start + 2])
WellFormed ==
    /\ dump # <<>>
    /\ \E cuts \in kSubset(AsUsize(dump[1]) + 1, 1 .. Len(dump)) :
         /\ {1, Len(dump)} \subseteq cuts
         /\ \A start \in cuts \ {Len(dump)} :
              LET next == Min({cut \in cuts : cut > start})
              IN start + 2 <= next /\ EntryEnd(start) = next
FormatExact == ~ Decoded.refused <=> WellFormed
=============================================================================
