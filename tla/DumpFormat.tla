------------------------------ MODULE DumpFormat ------------------------------
(***************************************************************************)
(* What decode_storage() makes of a dump, for every storage, every width   *)
(* of usize and every place where a dump may be cut, continued or changed. *)
(*                                                                         *)
(* A dump is written and read by recursion over its entries.  What is      *)
(* claimed of each number of entries is stated as a set of numbers, and    *)
(* the set has them all as no number outside it can be the least           *)
(* (LeastNumber, NumbersFrom).                                             *)
(*                                                                         *)
(*   - Writing: the function behind FlattenSeq, and what of it stays where *)
(*     in the dump.                                                        *)
(*   - Reading: no sum saturates in a dump that fits, so an entry is read  *)
(*     from cursor to cursor; and what is read is a storage.               *)
(*   - A dump that agrees with an encoding, as far as both go, is read as  *)
(*     the storage encoded if it is as long, and refused otherwise.        *)
(*   - The cursors of an accepted dump are the cuts of the format, and the *)
(*     cuts of a well-formed dump are where the cursor stops.              *)
(***************************************************************************)
EXTENDS StorageDump, SequenceTheorems, FiniteSetTheorems, TLAPS
-----------------------------------------------------------------------------
(* Numbers. *)

\* A set of numbers has a least one.

LEMMA LeastNumber ==
    ASSUME NEW T \in SUBSET Nat, T # {}
    PROVE  \E x \in T : \A y \in T : x <= y
<1> DEFINE R == OpToRel(<, Nat)
<1>1. IsWellFoundedOn(R, Nat)
  BY NatLessThanWellFounded
<1>2. \A x, y \in Nat : <<y, x>> \in R <=> y < x
  BY DEF OpToRel
<1> HIDE DEF R
<1>3. PICK x \in T : \A y \in T : ~ (<<y, x>> \in R)
  BY <1>1, WFMin
<1>4. \A y \in T : ~ (y < x)
  BY <1>2, <1>3
<1> QED BY <1>4

\* Induction, for a set of numbers.
LEMMA NumbersFrom ==
    ASSUME NEW S, 0 \in S, \A n \in Nat : n \in S => n + 1 \in S
    PROVE  \A n \in Nat : n \in S
<1> SUFFICES ASSUME Nat \ S # {} PROVE FALSE
  OBVIOUS
<1>1. PICK x \in Nat \ S : \A y \in Nat \ S : x <= y
  BY LeastNumber
<1>2. x # 0 /\ x - 1 \in Nat
  BY <1>1
<1>3. x - 1 \in S
  BY <1>1, <1>2
<1> QED BY <1>1, <1>2, <1>3
-----------------------------------------------------------------------------
(* Writing. *)

\* What FlattenSeq has written after each of its parts.
Written(parts, n, F) ==
    /\ F[0] = <<>>
    /\ \A i \in 1 .. n : F[i] = F[i - 1] \o parts[i]

\* The function FlattenSeq is computed with, up to its n-th part.
Flattens(parts, n, f) ==
    f = [i \in 1 .. n |-> IF i = 1 THEN parts[i] ELSE f[i - 1] \o parts[i]]

LEMMA FlattenDefined ==
    ASSUME NEW n \in Nat, n > 0, NEW parts, Len(parts) = n
    PROVE  \E f : Flattens(parts, n, f) /\ FlattenSeq(parts) = f[n]
<1> DEFINE S == {k \in Nat : \E f : Flattens(parts, k + 1, f)}
<1>1. 0 \in S
  <2> DEFINE f == [i \in 1 .. 1 |-> parts[i]]
  <2>1. Flattens(parts, 1, f)
    BY DEF Flattens
  <2> QED BY <2>1
<1>2. ASSUME NEW k \in Nat, k \in S PROVE k + 1 \in S
  <2>1. PICK f : Flattens(parts, k + 1, f)
    BY <1>2
  <2> DEFINE g == [i \in 1 .. k + 2 |-> IF i = k + 2 THEN f[k + 1] \o parts[k + 2] ELSE f[i]]
  <2>2. \A i \in 1 .. k + 1 : f[i] = IF i = 1 THEN parts[i] ELSE f[i - 1] \o parts[i]
    BY <2>1 DEF Flattens
  <2>3. \A i \in 1 .. k + 2 : g[i] = IF i = 1 THEN parts[i] ELSE g[i - 1] \o parts[i]
    BY <2>2
  <2>4. Flattens(parts, k + 2, g)
    BY <2>3 DEF Flattens
  <2>5. \E h : Flattens(parts, (k + 1) + 1, h)
    BY <2>4
  <2> QED BY <2>5
<1>3. n - 1 \in S
  <2> HIDE DEF S
  <2> QED BY <1>1, <1>2, NumbersFrom
<1>4. \E f : Flattens(parts, n, f)
  BY <1>3
<1> DEFINE flatten == CHOOSE f : Flattens(parts, n, f)
<1>5. Flattens(parts, n, flatten)
  BY <1>4
<1>6. FlattenSeq(parts) = flatten[n]
  BY DEF FlattenSeq, Flattens
<1> QED BY <1>5, <1>6

\* What has been written after each of the parts.
Writes(parts, n, F) ==
    /\ F[0] = <<>>
    /\ \A i \in 1 .. n : F[i] = F[i - 1] \o parts[i]

LEMMA FlattenWrites ==
    ASSUME NEW n \in Nat, NEW parts \in [1 .. n -> Seq(Nat)]
    PROVE  \E F \in [0 .. n -> Seq(Nat)] : Writes(parts, n, F) /\ FlattenSeq(parts) = F[n]
<1>1. parts \in Seq(Seq(Nat)) /\ Len(parts) = n
  OBVIOUS
<1>2. CASE n = 0
  <2> DEFINE F == [i \in 0 .. 0 |-> <<>>]
  <2>1. parts = <<>>
    BY <1>1, <1>2, EmptySeq
  <2>2. F \in [0 .. n -> Seq(Nat)] /\ Writes(parts, n, F)
    BY <1>2, EmptySeq DEF Writes
  <2>3. FlattenSeq(parts) = F[n]
    BY <1>1, <1>2, <2>1 DEF FlattenSeq
  <2> QED BY <2>2, <2>3
<1>3. CASE n > 0
  <2>1. PICK f : Flattens(parts, n, f) /\ FlattenSeq(parts) = f[n]
    BY <1>1, <1>3, FlattenDefined
  <2> DEFINE F == [i \in 0 .. n |-> IF i = 0 THEN <<>> ELSE f[i]]
             S == {k \in Nat : k <= n => F[k] \in Seq(Nat)}
  <2>2. \A i \in 1 .. n : f[i] = IF i = 1 THEN parts[i] ELSE f[i - 1] \o parts[i]
    BY <2>1 DEF Flattens
  <2>0. DOMAIN F = 0 .. n /\ F = [i \in 0 .. n |-> F[i]] /\ F[0] = <<>> /\ \A i \in 1 .. n : F[i] = f[i]
    OBVIOUS
  <2> HIDE DEF F
  <2>3. ASSUME NEW i \in 1 .. n PROVE F[i] = F[i - 1] \o parts[i]
    <3>1. CASE i = 1
      <4>1. <<>> \o parts[1] = parts[1]
        BY <3>1, ConcatEmptySeq
      <4>2. F[1] = parts[1]
        BY <2>0, <2>2, <3>1
      <4> QED BY <2>0, <3>1, <4>1, <4>2
    <3>2. CASE i # 1
      <4>1. i - 1 \in 1 .. n
        BY <3>2
      <4>2. F[i - 1] = f[i - 1] /\ F[i] = f[i]
        BY <2>0, <4>1
      <4> QED BY <2>2, <3>2, <4>2
    <3> QED BY <3>1, <3>2
  <2>4. 0 \in S
    BY <2>0, EmptySeq
  <2>5. ASSUME NEW k \in Nat, k \in S PROVE k + 1 \in S
    <3> SUFFICES ASSUME k + 1 <= n PROVE F[k + 1] \in Seq(Nat)
      OBVIOUS
    <3>1. F[k] \in Seq(Nat) /\ parts[k + 1] \in Seq(Nat)
      BY <2>5
    <3>2. F[k + 1] = F[k] \o parts[k + 1]
      <4>1. k + 1 \in 1 .. n /\ (k + 1) - 1 = k
        OBVIOUS
      <4> QED BY <2>3, <4>1
    <3> QED BY <3>1, <3>2, ConcatProperties
  <2>6. \A k \in Nat : k \in S
    <3> HIDE DEF S
    <3> QED BY <2>4, <2>5, NumbersFrom
  <2>7. F \in [0 .. n -> Seq(Nat)]
    <3>1. \A k \in 0 .. n : F[k] \in Seq(Nat)
      BY <2>6
    <3> QED BY <2>0, <3>1
  <2>8. Writes(parts, n, F)
    BY <2>0, <2>3 DEF Writes
  <2>9. FlattenSeq(parts) = F[n]
    <3>1. n \in 1 .. n
      BY <1>3
    <3> QED BY <2>0, <2>1, <3>1
  <2> QED BY <2>7, <2>8, <2>9
<1> QED BY <1>2, <1>3

\* What was written earlier stays where it is.
LEMMA WrittenStays ==
    ASSUME NEW n \in Nat, NEW parts \in [1 .. n -> Seq(Nat)],
           NEW F \in [0 .. n -> Seq(Nat)], Writes(parts, n, F),
           NEW i \in 0 .. n, NEW j \in i .. n
    PROVE  Len(F[i]) <= Len(F[j]) /\ \A c \in 1 .. Len(F[i]) : F[j][c] = F[i][c]
<1> DEFINE S == {d \in Nat : i + d <= n =>
                       Len(F[i]) <= Len(F[i + d]) /\ \A c \in 1 .. Len(F[i]) : F[i + d][c] = F[i][c]}
<1>1. 0 \in S
  OBVIOUS
<1>2. ASSUME NEW d \in Nat, d \in S PROVE d + 1 \in S
  <2> SUFFICES ASSUME i + (d + 1) <= n
               PROVE  /\ Len(F[i]) <= Len(F[i + (d + 1)])
                      /\ \A c \in 1 .. Len(F[i]) : F[i + (d + 1)][c] = F[i][c]
    OBVIOUS
  <2> DEFINE k == i + d
             before == F[k]
             part == parts[k + 1]
  <2>1. Len(F[i]) <= Len(before) /\ \A c \in 1 .. Len(F[i]) : before[c] = F[i][c]
    BY <1>2
  <2>2. k \in 0 .. n /\ k + 1 \in 1 .. n /\ (k + 1) - 1 = k /\ i + (d + 1) = k + 1
    OBVIOUS
  <2> HIDE DEF k
  <2>3. F[k + 1] = before \o part
    BY <2>2 DEF Writes
  <2>4. before \in Seq(Nat) /\ part \in Seq(Nat) /\ F[i] \in Seq(Nat)
    BY <2>2
  <2> HIDE DEF before, part
  <2>5. Len(before) \in Nat /\ Len(part) \in Nat /\ Len(F[i]) \in Nat
    BY <2>4, LenProperties
  <2>6. /\ Len(before \o part) = Len(before) + Len(part)
        /\ \A c \in 1 .. Len(before) : (before \o part)[c] = before[c]
    BY <2>4, <2>5, ConcatProperties
  <2>7. \A c \in 1 .. Len(F[i]) : (before \o part)[c] = F[i][c]
    BY <2>1, <2>5, <2>6
  <2>8. Len(F[i]) <= Len(F[k + 1])
    BY <2>1, <2>3, <2>5, <2>6
  <2> QED BY <2>2, <2>3, <2>7, <2>8
<1>3. j - i \in S
  <2> HIDE DEF S
  <2>1. j - i \in Nat
    OBVIOUS
  <2> QED BY <1>1, <1>2, <2>1, NumbersFrom
<1>4. i + (j - i) = j /\ j <= n
  OBVIOUS
<1> QED BY <1>3, <1>4
-----------------------------------------------------------------------------
(* Reading. *)

\* What the reader has after each entry of a dump that says it has `count`.
Reads(count, read) ==
    read = [n \in 0 .. count |->
                IF n = 0 THEN Reader(1, <<>>)
                ELSE IF read[n - 1].refused THEN Refused ELSE ReadEntry(read[n - 1])]

LEMMA EntriesRead ==
    ASSUME NEW count \in Nat
    PROVE  \E read : Reads(count, read) /\ Entries(count) = read[count]
<1> DEFINE S == {k \in Nat : \E read : Reads(k, read)}
<1>1. 0 \in S
  <2> DEFINE read == [n \in 0 .. 0 |-> Reader(1, <<>>)]
  <2>1. Reads(0, read)
    BY DEF Reads
  <2> QED BY <2>1
<1>2. ASSUME NEW k \in Nat, k \in S PROVE k + 1 \in S
  <2>1. PICK read : Reads(k, read)
    BY <1>2
  <2> DEFINE more == [n \in 0 .. k + 1 |->
                        IF n = k + 1 THEN IF read[k].refused THEN Refused ELSE ReadEntry(read[k])
                        ELSE read[n]]
  <2>2. \A n \in 0 .. k :
          read[n] = IF n = 0 THEN Reader(1, <<>>)
                    ELSE IF read[n - 1].refused THEN Refused ELSE ReadEntry(read[n - 1])
    BY <2>1 DEF Reads
  <2>3. \A n \in 0 .. k + 1 :
          more[n] = IF n = 0 THEN Reader(1, <<>>)
                    ELSE IF more[n - 1].refused THEN Refused ELSE ReadEntry(more[n - 1])
    BY <2>2
  <2>4. Reads(k + 1, more)
    BY <2>3 DEF Reads
  <2> QED BY <2>4
<1>3. count \in S
  <2> HIDE DEF S
  <2> QED BY <1>1, <1>2, NumbersFrom
<1>4. \E read : Reads(count, read)
  BY <1>3
<1> DEFINE read == CHOOSE read : Reads(count, read)
<1>5. Reads(count, read)
  BY <1>4
<1>6. Entries(count) = read[count]
  BY DEF Entries, Reads
<1> QED BY <1>5, <1>6

LEMMA ReadSteps ==
    ASSUME NEW count \in Nat, NEW read, Reads(count, read)
    PROVE  /\ read[0] = Reader(1, <<>>)
           /\ \A n \in 1 .. count :
                read[n] = IF read[n - 1].refused THEN Refused ELSE ReadEntry(read[n - 1])
<1>1. \A n \in 0 .. count :
        read[n] = IF n = 0 THEN Reader(1, <<>>)
                  ELSE IF read[n - 1].refused THEN Refused ELSE ReadEntry(read[n - 1])
  BY DEF Reads
<1> QED BY <1>1

\* The map after the entry at a cursor.
Learned(cursor, map) ==
    Inserted(map, SubSeq(dump, cursor + 3, cursor + 2 + AsUsize(dump[cursor + 1])),
             SubSeq(dump, cursor + 3 + AsUsize(dump[cursor + 1]), EntryEnd(cursor)))

\* In a dump shorter than usize::MAX no sum saturates into the dump.
LEMMA WithinExact ==
    ASSUME usize \in Nat, dump \in Seq(Nat), Fits(dump), NEW m \in Nat, NEW n \in Nat
    PROVE  /\ Within(m, n) <=> m + n <= Len(dump)
           /\ m + n <= Len(dump) => SaturatingAdd(m, n) = m + n
<1>1. Len(dump) \in Nat
  BY LenProperties
<1> QED BY <1>1 DEF Within, SaturatingAdd, Fits

LEMMA CellNat ==
    ASSUME dump \in Seq(Nat), NEW i \in 1 .. Len(dump)
    PROVE  dump[i] \in Nat
BY ElementOfSeq

LEMMA ReadEntryExact ==
    ASSUME usize \in Nat, usize > 2, dump \in Seq(Nat), Fits(dump),
           NEW cursor \in 1 .. Len(dump), NEW map
    PROVE  /\ cursor + 2 <= Len(dump) =>
                /\ AsUsize(dump[cursor + 1]) \in Nat /\ AsUsize(dump[cursor + 2]) \in Nat
                /\ EntryEnd(cursor) \in Nat
           /\ ReadEntry(Reader(cursor, map)) =
                IF cursor + 2 <= Len(dump) /\ EntryEnd(cursor) <= Len(dump)
                THEN Reader(EntryEnd(cursor), Learned(cursor, map)) ELSE Refused
<1> DEFINE at == Reader(cursor, map)
           keyLen == AsUsize(dump[cursor + 1])
           valueLen == AsUsize(dump[cursor + 2])
           key == cursor + 2
           value == SaturatingAdd(key, keyLen)
<1>1. Len(dump) \in Nat /\ cursor \in Nat
  BY LenProperties
<1>2. at.cursor = cursor /\ at.map = map
  BY DEF Reader
<1>3. Within(cursor, 2) <=> cursor + 2 <= Len(dump)
  BY <1>1, WithinExact
<1>4. CASE ~ cursor + 2 <= Len(dump)
  <2>1. ReadEntry(at) = Refused
    BY <1>2, <1>3, <1>4 DEF ReadEntry
  <2> QED BY <1>4, <2>1
<1>5. CASE cursor + 2 <= Len(dump)
  <2>1. dump[cursor + 1] \in Nat /\ dump[cursor + 2] \in Nat
    BY <1>1, <1>5, CellNat
  <2>2. keyLen \in Nat /\ valueLen \in Nat
    BY <2>1 DEF AsUsize
  <2>3. EntryEnd(cursor) = key + keyLen + valueLen /\ EntryEnd(cursor) \in Nat /\ key \in Nat
    BY <1>1, <2>2 DEF EntryEnd
  <2> HIDE DEF keyLen, valueLen
  <2>4. Within(key, keyLen) <=> key + keyLen <= Len(dump)
    BY <2>2, <2>3, WithinExact
  <2>5. ASSUME key + keyLen <= Len(dump)
        PROVE  /\ value = key + keyLen /\ value \in Nat
               /\ Within(value, valueLen) <=> EntryEnd(cursor) <= Len(dump)
               /\ EntryEnd(cursor) <= Len(dump) => SaturatingAdd(value, valueLen) = EntryEnd(cursor)
    <3>1. value = key + keyLen /\ value \in Nat
      <4> HIDE DEF key
      <4>1. SaturatingAdd(key, keyLen) = key + keyLen
        BY <2>2, <2>3, <2>5, WithinExact
      <4> QED BY <2>2, <2>3, <4>1
    <3> HIDE DEF value
    <3>2. value + valueLen = EntryEnd(cursor)
      BY <2>3, <3>1
    <3> QED BY <2>2, <3>1, <3>2, WithinExact
  <2>6. Within(key, keyLen) /\ Within(value, valueLen) <=> EntryEnd(cursor) <= Len(dump)
    <3> HIDE DEF value, key
    <3> QED BY <1>1, <2>2, <2>3, <2>4, <2>5
  <2>7. CASE EntryEnd(cursor) <= Len(dump)
    <3>1. key + keyLen <= Len(dump)
      BY <1>1, <2>2, <2>3, <2>7
    <3>2. /\ Slice(key, keyLen) = SubSeq(dump, cursor + 3, cursor + 2 + keyLen)
          /\ Slice(value, valueLen) = SubSeq(dump, cursor + 3 + keyLen, EntryEnd(cursor))
      <4>1. key + 1 = cursor + 3 /\ value + 1 = cursor + 3 + keyLen
        BY <1>1, <2>2, <2>5, <3>1
      <4>2. SaturatingAdd(key, keyLen) = cursor + 2 + keyLen
        BY <2>5, <3>1
      <4>3. SaturatingAdd(value, valueLen) = EntryEnd(cursor)
        BY <2>5, <2>7, <3>1
      <4> QED BY <4>1, <4>2, <4>3 DEF Slice
    <3>3. ReadEntry(at) = Reader(SaturatingAdd(value, valueLen),
                                 Inserted(map, Slice(key, keyLen), Slice(value, valueLen)))
      BY <1>2, <1>3, <1>5, <2>6, <2>7 DEF ReadEntry, keyLen, valueLen
    <3>4. SaturatingAdd(value, valueLen) = EntryEnd(cursor)
      BY <2>5, <2>7, <3>1
    <3> QED BY <1>5, <2>2, <2>3, <2>7, <3>2, <3>3, <3>4 DEF Learned, keyLen, valueLen
  <2>8. CASE ~ EntryEnd(cursor) <= Len(dump)
    <3>1. ReadEntry(at) = Refused
      BY <1>2, <1>3, <1>5, <2>6, <2>8 DEF ReadEntry, keyLen, valueLen
    <3> QED BY <1>5, <2>2, <2>3, <2>8, <3>1 DEF keyLen, valueLen
  <2> QED BY <2>7, <2>8
<1> QED BY <1>4, <1>5
-----------------------------------------------------------------------------
(* What is read of any dump. *)

\* A storage: finitely many keys, and values.
IsMap(map) ==
    /\ map = [key \in DOMAIN map |-> map[key]]
    /\ IsFiniteSet(DOMAIN map) /\ DOMAIN map \subseteq Seq(Nat)
    /\ \A key \in DOMAIN map : map[key] \in Seq(Nat)

LEMMA EmptyMap == IsMap(<<>>) /\ DOMAIN <<>> = {}
<1>1. DOMAIN <<>> = {}
  OBVIOUS
<1>2. <<>> = [key \in DOMAIN <<>> |-> <<>>[key]]
  OBVIOUS
<1> QED BY <1>1, <1>2, FS_EmptySet DEF IsMap

LEMMA MapGrows ==
    ASSUME NEW map, IsMap(map), NEW key \in Seq(Nat), NEW value \in Seq(Nat)
    PROVE  IsMap(Inserted(map, key, value))
<1> DEFINE grown == Inserted(map, key, value)
<1>1. /\ DOMAIN grown = DOMAIN map \cup {key}
      /\ grown = [other \in DOMAIN grown |-> grown[other]]
      /\ \A other \in DOMAIN grown : grown[other] = IF other = key THEN value ELSE map[other]
  BY DEF Inserted
<1>2. IsFiniteSet(DOMAIN map \cup {key})
  BY FS_AddElement DEF IsMap
<1> HIDE DEF grown
<1>3. IsMap(grown)
  BY <1>1, <1>2 DEF IsMap
<1> QED BY <1>3 DEF grown

\* A reading is refused, or is at a cursor of the dump with a map.
Sound(at) ==
    at = Refused \/ \E map : IsMap(map) /\ \E cursor \in 1 .. Len(dump) : at = Reader(cursor, map)

DumpOK == usize \in Nat /\ usize > 2 /\ dump \in Seq(Nat) /\ Fits(dump)

LEMMA ReadEntrySound ==
    ASSUME DumpOK, NEW cursor \in 1 .. Len(dump), NEW map, IsMap(map)
    PROVE  Sound(ReadEntry(Reader(cursor, map)))
<1> DEFINE keyLen == AsUsize(dump[cursor + 1])
           valueLen == AsUsize(dump[cursor + 2])
           first == SubSeq(dump, cursor + 3, cursor + 2 + keyLen)
           second == SubSeq(dump, cursor + 3 + keyLen, EntryEnd(cursor))
<1>1. Len(dump) \in Nat /\ cursor \in Nat
  BY LenProperties DEF DumpOK
<1>2. CASE ~ (cursor + 2 <= Len(dump) /\ EntryEnd(cursor) <= Len(dump))
  BY <1>2, ReadEntryExact DEF DumpOK, Sound
<1>3. CASE cursor + 2 <= Len(dump) /\ EntryEnd(cursor) <= Len(dump)
  <2>1. /\ keyLen \in Nat /\ valueLen \in Nat /\ EntryEnd(cursor) \in Nat
        /\ ReadEntry(Reader(cursor, map)) = Reader(EntryEnd(cursor), Learned(cursor, map))
    BY <1>3, ReadEntryExact DEF DumpOK
  <2>2. EntryEnd(cursor) = cursor + 2 + keyLen + valueLen
    BY DEF EntryEnd
  <2>3. Learned(cursor, map) = Inserted(map, first, second)
    BY DEF Learned
  <2> HIDE DEF keyLen, valueLen
  <2>4. \A i \in cursor + 3 .. cursor + 2 + keyLen : dump[i] \in Nat
    BY <1>1, <1>3, <2>1, <2>2, CellNat DEF DumpOK
  <2>5. \A i \in cursor + 3 + keyLen .. EntryEnd(cursor) : dump[i] \in Nat
    BY <1>1, <1>3, <2>1, <2>2, CellNat DEF DumpOK
  <2>6. first \in Seq(Nat)
    BY <1>1, <2>1, <2>4, SubSeqProperties
  <2>7. second \in Seq(Nat)
    BY <1>1, <2>1, <2>5, SubSeqProperties
  <2> HIDE DEF first, second
  <2>8. IsMap(Learned(cursor, map))
    BY <2>3, <2>6, <2>7, MapGrows
  <2>9. EntryEnd(cursor) \in 1 .. Len(dump)
    BY <1>1, <1>3, <2>1, <2>2
  <2> QED BY <2>1, <2>8, <2>9 DEF Sound
<1> QED BY <1>2, <1>3

LEMMA ReadingSound ==
    ASSUME DumpOK, Len(dump) > 0, NEW count \in Nat, NEW read, Reads(count, read)
    PROVE  \A n \in 0 .. count : Sound(read[n])
<1> DEFINE S == {n \in Nat : n <= count => Sound(read[n])}
<1>1. 0 \in S
  <2>1. 1 \in 1 .. Len(dump)
    BY LenProperties DEF DumpOK
  <2> QED BY <2>1, ReadSteps, EmptyMap DEF Sound
<1>2. ASSUME NEW n \in Nat, n \in S PROVE n + 1 \in S
  <2> SUFFICES ASSUME n + 1 <= count PROVE Sound(read[n + 1])
    OBVIOUS
  <2>1. Sound(read[n])
    BY <1>2
  <2>2. n + 1 \in 1 .. count /\ (n + 1) - 1 = n
    OBVIOUS
  <2>3. read[n + 1] = IF read[n].refused THEN Refused ELSE ReadEntry(read[n])
    BY <2>2, ReadSteps
  <2>4. CASE read[n] = Refused
    BY <2>3, <2>4 DEF Refused, Sound
  <2>5. ASSUME NEW cursor \in 1 .. Len(dump), NEW map,
               read[n] = Reader(cursor, map), IsMap(map)
        PROVE  Sound(read[n + 1])
    <3>1. ~ read[n].refused
      BY <2>5 DEF Reader
    <3> QED BY <2>3, <2>5, <3>1, ReadEntrySound
  <2> QED BY <2>1, <2>4, <2>5 DEF Sound
<1>3. \A n \in Nat : n \in S
  <2> HIDE DEF S
  <2> QED BY <1>1, <1>2, NumbersFrom
<1> QED BY <1>3
-----------------------------------------------------------------------------
(* What is read of a dump as it was written, or torn. *)

Parts(order, map) == [i \in DOMAIN order |-> Entry(order[i], map[order[i]])]

\* The keys in some order, what has been written after each, and the dump in the end.
Encodes(whole, map, n, order, F) ==
    /\ n \in Nat /\ order \in [1 .. n -> DOMAIN map]
    /\ \A key \in DOMAIN map : \E i \in 1 .. n : order[i] = key
    /\ F \in [0 .. n -> Seq(Nat)] /\ Writes(Parts(order, map), n, F)
    /\ whole = <<n>> \o F[n]

\* Where the cells of two sequences are in the one they make.
Joins(s, r, both) ==
    /\ both \in Seq(Nat) /\ Len(both) = Len(s) + Len(r)
    /\ Len(s) \in Nat /\ Len(r) \in Nat
    /\ \A i \in 1 .. Len(s) : both[i] = s[i]
    /\ \A i \in 1 .. Len(r) : both[Len(s) + i] = r[i]

LEMMA Joined ==
    ASSUME NEW s \in Seq(Nat), NEW r \in Seq(Nat)
    PROVE  Joins(s, r, s \o r)
<1>1. Len(s) \in Nat /\ Len(r) \in Nat
  BY LenProperties
<1>2. /\ s \o r \in Seq(Nat) /\ Len(s \o r) = Len(s) + Len(r)
      /\ \A i \in 1 .. Len(s) + Len(r) : (s \o r)[i] = IF i <= Len(s) THEN s[i] ELSE r[i - Len(s)]
  BY ConcatProperties
<1>3. \A i \in 1 .. Len(s) : i \in 1 .. Len(s) + Len(r) /\ i <= Len(s)
  BY <1>1
<1>4. \A i \in 1 .. Len(r) :
        /\ Len(s) + i \in 1 .. Len(s) + Len(r)
        /\ ~ Len(s) + i <= Len(s) /\ (Len(s) + i) - Len(s) = i
  BY <1>1
<1> QED BY <1>1, <1>2, <1>3, <1>4 DEF Joins

LEMMA EntryCells ==
    ASSUME NEW key \in Seq(Nat), NEW value \in Seq(Nat)
    PROVE  /\ Entry(key, value) \in Seq(Nat)
           /\ Len(Entry(key, value)) = 2 + Len(key) + Len(value)
           /\ Entry(key, value)[1] = Len(key) /\ Entry(key, value)[2] = Len(value)
           /\ \A i \in 1 .. Len(key) : Entry(key, value)[2 + i] = key[i]
           /\ \A i \in 1 .. Len(value) : Entry(key, value)[2 + Len(key) + i] = value[i]
<1> DEFINE lengths == <<Len(key), Len(value)>>
           head == lengths \o key
<1>1. Len(key) \in Nat /\ Len(value) \in Nat
  BY LenProperties
<1>2. /\ lengths \in Seq(Nat) /\ Len(lengths) = 2
      /\ lengths[1] = Len(key) /\ lengths[2] = Len(value)
  BY <1>1
<1>3. Entry(key, value) = head \o value
  BY DEF Entry
<1> HIDE DEF lengths
<1>4. /\ head \in Seq(Nat) /\ Len(head) = 2 + Len(key)
      /\ \A i \in 1 .. 2 : head[i] = lengths[i]
      /\ \A i \in 1 .. Len(key) : head[2 + i] = key[i]
  <2>1. Joins(lengths, key, head)
    BY <1>2, Joined
  <2> QED BY <1>2, <2>1 DEF Joins
<1> HIDE DEF head
<1>5. /\ head \o value \in Seq(Nat) /\ Len(head \o value) = 2 + Len(key) + Len(value)
      /\ \A i \in 1 .. 2 + Len(key) : (head \o value)[i] = head[i]
      /\ \A i \in 1 .. Len(value) : (head \o value)[2 + Len(key) + i] = value[i]
  <2>1. Joins(head, value, head \o value)
    BY <1>4, Joined
  <2> QED BY <1>4, <2>1 DEF Joins
<1>6. \A i \in 1 .. Len(key) : (head \o value)[2 + i] = key[i]
  <2>1. \A i \in 1 .. Len(key) : 2 + i \in 1 .. 2 + Len(key)
    BY <1>1
  <2> QED BY <1>4, <1>5, <2>1
<1>7. (head \o value)[1] = Len(key) /\ (head \o value)[2] = Len(value)
  <2>1. 1 \in 1 .. 2 /\ 2 \in 1 .. 2 /\ 1 \in 1 .. 2 + Len(key) /\ 2 \in 1 .. 2 + Len(key)
    BY <1>1
  <2>2. head[1] = Len(key) /\ head[2] = Len(value)
    BY <1>2, <1>4, <2>1
  <2> QED BY <1>5, <2>1, <2>2
<1> QED BY <1>3, <1>5, <1>6, <1>7

LEMMA PartsAreSeqs ==
    ASSUME NEW map, IsMap(map), NEW n \in Nat, NEW order \in [1 .. n -> DOMAIN map]
    PROVE  Parts(order, map) \in [1 .. n -> Seq(Nat)]
<1>1. \A i \in 1 .. n : Entry(order[i], map[order[i]]) \in Seq(Nat)
  BY EntryCells DEF IsMap
<1> QED BY <1>1 DEF Parts

LEMMA EncodingsEncode ==
    ASSUME NEW map, IsMap(map), NEW whole \in Encodings(map)
    PROVE  \E n, order, F : Encodes(whole, map, n, order, F)
<1> DEFINE n == Cardinality(DOMAIN map)
<1>1. n \in Nat
  BY FS_CardinalityType DEF IsMap
<1>2. PICK order \in SetToSeqs(DOMAIN map) : whole = <<Len(order)>> \o FlattenSeq(Parts(order, map))
  BY DEF Encodings, Parts
<1>3. /\ order \in [1 .. n -> DOMAIN map]
      /\ \A i, j \in 1 .. n : i # j => order[i] # order[j]
  BY <1>2 DEF SetToSeqs
<1>4. Len(order) = n
  BY <1>1, <1>3
<1>5. order \in Surjection(1 .. n, DOMAIN map)
  <2>1. order \in Injection(1 .. n, DOMAIN map)
    BY <1>3 DEF Injection, IsInjective
  <2>2. Cardinality(1 .. n) = n
    BY <1>1, FS_Interval
  <2> QED BY <2>1, <2>2, FS_Injection DEF IsMap
<1>6. \A key \in DOMAIN map : \E i \in 1 .. n : order[i] = key
  BY <1>5 DEF Surjection
<1>7. PICK F \in [0 .. n -> Seq(Nat)] :
        Writes(Parts(order, map), n, F) /\ FlattenSeq(Parts(order, map)) = F[n]
  BY <1>1, <1>3, PartsAreSeqs, FlattenWrites
<1>8. Encodes(whole, map, n, order, F)
  <2> HIDE DEF n
  <2> QED BY <1>1, <1>2, <1>3, <1>4, <1>6, <1>7 DEF Encodes
<1> QED BY <1>8

\* An entry lies in a dump from one cursor to another.
Placed(whole, cursor, after, key, value) ==
    /\ key \in Seq(Nat) /\ value \in Seq(Nat)
    /\ after = cursor + 2 + Len(key) + Len(value)
    /\ whole[cursor + 1] = Len(key) /\ whole[cursor + 2] = Len(value)
    /\ \A j \in 1 .. Len(key) : whole[cursor + 2 + j] = key[j]
    /\ \A j \in 1 .. Len(value) : whole[cursor + 2 + Len(key) + j] = value[j]

LEMMA EncodedCells ==
    ASSUME NEW map, IsMap(map), NEW whole, NEW n, NEW order, NEW F,
           Encodes(whole, map, n, order, F)
    PROVE  /\ whole \in Seq(Nat) /\ whole[1] = n /\ Len(whole) = Len(F[n]) + 1 /\ Len(F[0]) = 0
           /\ \A i \in 0 .. n : Len(F[i]) \in Nat /\ Len(F[i]) + 1 <= Len(whole)
           /\ \A i \in 0 .. n - 1 :
                Placed(whole, Len(F[i]) + 1, Len(F[i + 1]) + 1, order[i + 1], map[order[i + 1]])
<1> DEFINE parts == Parts(order, map)
<1>1. /\ n \in Nat /\ order \in [1 .. n -> DOMAIN map]
      /\ F \in [0 .. n -> Seq(Nat)] /\ Writes(parts, n, F) /\ whole = <<n>> \o F[n]
  BY DEF Encodes
<1>2. parts \in [1 .. n -> Seq(Nat)]
  BY <1>1, PartsAreSeqs
<1>3. \A i \in 0 .. n : F[i] \in Seq(Nat) /\ Len(F[i]) \in Nat
  BY <1>1, LenProperties
<1>4. F[0] = <<>> /\ Len(F[0]) = 0
  BY <1>1 DEF Writes
<1>5. /\ whole \in Seq(Nat) /\ Len(whole) = Len(F[n]) + 1 /\ whole[1] = n
      /\ \A c \in 1 .. Len(F[n]) : whole[c + 1] = F[n][c]
  <2>1. F[n] \in Seq(Nat)
    BY <1>1, <1>3
  <2>2. <<n>> \in Seq(Nat) /\ Len(<<n>>) = 1 /\ <<n>>[1] = n
    BY <1>1
  <2> DEFINE end == F[n]
             one == <<n>>
  <2>3. whole = one \o end
    BY <1>1
  <2> HIDE DEF end, one
  <2>4. /\ whole \in Seq(Nat) /\ Len(whole) = 1 + Len(end) /\ Len(end) \in Nat
        /\ whole[1] = n
        /\ \A c \in 1 .. Len(end) : whole[1 + c] = end[c]
    <3>1. end \in Seq(Nat) /\ one \in Seq(Nat) /\ Len(one) = 1 /\ one[1] = n
      BY <2>1, <2>2 DEF end, one
    <3>2. Joins(one, end, whole)
      BY <2>3, <3>1, Joined
    <3> QED BY <3>1, <3>2 DEF Joins
  <2>5. \A c \in 1 .. Len(end) : c + 1 = 1 + c
    BY <2>4
  <2> QED BY <2>4, <2>5 DEF end
<1>6. \A i \in 0 .. n :
        Len(F[i]) <= Len(F[n]) /\ \A c \in 1 .. Len(F[i]) : whole[c + 1] = F[i][c]
  <2> TAKE i \in 0 .. n
  <2>0. n \in i .. n
    BY <1>1
  <2> HIDE DEF parts
  <2>1. Len(F[i]) <= Len(F[n]) /\ \A c \in 1 .. Len(F[i]) : F[n][c] = F[i][c]
    BY <1>1, <1>2, <2>0, WrittenStays
  <2>2. Len(F[i]) \in Nat /\ Len(F[n]) \in Nat
    BY <1>1, <1>3
  <2> QED BY <1>5, <2>1, <2>2
<1>7. ASSUME NEW i \in 0 .. n - 1, NEW key, key = order[i + 1], NEW value, value = map[key],
             NEW cursor, cursor = Len(F[i]) + 1
      PROVE  Placed(whole, cursor, Len(F[i + 1]) + 1, key, value)
  <2>1. i \in 0 .. n /\ i + 1 \in 1 .. n /\ i + 1 \in 0 .. n /\ (i + 1) - 1 = i
    BY <1>1
  <2>2. key \in DOMAIN map
    BY <1>1, <1>7, <2>1
  <2>3. key \in Seq(Nat) /\ value \in Seq(Nat)
    BY <1>7, <2>2 DEF IsMap
  <2>4. Len(key) \in Nat /\ Len(value) \in Nat /\ Len(F[i]) \in Nat
    BY <1>3, <2>1, <2>3, LenProperties
  <2> DEFINE entry == Entry(key, value)
  <2>5. F[i + 1] = F[i] \o entry
    BY <1>1, <1>7, <2>1 DEF Writes, Parts
  <2>6. /\ entry \in Seq(Nat) /\ Len(entry) = 2 + Len(key) + Len(value)
        /\ entry[1] = Len(key) /\ entry[2] = Len(value)
        /\ \A j \in 1 .. Len(key) : entry[2 + j] = key[j]
        /\ \A j \in 1 .. Len(value) : entry[2 + Len(key) + j] = value[j]
    BY <2>3, EntryCells
  <2> HIDE DEF entry, parts
  <2>7. /\ Len(F[i + 1]) = Len(F[i]) + Len(entry)
        /\ \A c \in 1 .. Len(entry) : F[i + 1][Len(F[i]) + c] = entry[c]
    <3>1. F[i] \in Seq(Nat)
      BY <1>3, <2>1
    <3>2. Joins(F[i], entry, F[i] \o entry)
      BY <2>6, <3>1, Joined
    <3> QED BY <2>5, <3>2 DEF Joins
  <2> DEFINE past == Len(F[i])
             next == Len(F[i + 1])
  <2>13. past \in Nat /\ cursor = past + 1 /\ next = past + 2 + Len(key) + Len(value)
         /\ Len(entry) = 2 + Len(key) + Len(value) /\ Len(key) \in Nat /\ Len(value) \in Nat
    <3>1. past \in Nat /\ Len(key) \in Nat /\ Len(value) \in Nat
      BY <2>4
    <3>2. cursor = past + 1
      BY <1>7
    <3>3. next = past + Len(entry)
      BY <2>7
    <3> HIDE DEF past, next
    <3> QED BY <2>6, <3>1, <3>2, <3>3
  <2> HIDE DEF past, next
  <2>8. \A c \in 1 .. Len(entry) : whole[cursor + c] = entry[c]
    <3> TAKE c \in 1 .. Len(entry)
    <3>1. past + c \in 1 .. next /\ (past + c) + 1 = cursor + c
      BY <2>13
    <3>2. whole[(past + c) + 1] = F[i + 1][past + c]
      BY <1>6, <2>1, <3>1 DEF next
    <3> QED BY <2>7, <3>1, <3>2 DEF past
  <2>9. whole[cursor + 1] = Len(key) /\ whole[cursor + 2] = Len(value)
    BY <2>4, <2>6, <2>8
  <2>10. \A j \in 1 .. Len(key) : whole[cursor + 2 + j] = key[j]
    <3> TAKE j \in 1 .. Len(key)
    <3>1. 2 + j \in 1 .. Len(entry) /\ cursor + (2 + j) = cursor + 2 + j
      BY <2>13
    <3> QED BY <2>6, <2>8, <3>1
  <2>11. \A j \in 1 .. Len(value) : whole[cursor + 2 + Len(key) + j] = value[j]
    <3> TAKE j \in 1 .. Len(value)
    <3>1. /\ 2 + Len(key) + j \in 1 .. Len(entry)
          /\ cursor + (2 + Len(key) + j) = cursor + 2 + Len(key) + j
      BY <2>13
    <3> QED BY <2>6, <2>8, <3>1
  <2>12. Len(F[i + 1]) + 1 = cursor + 2 + Len(key) + Len(value)
    BY <2>13 DEF next
  <2> QED BY <2>3, <2>9, <2>10, <2>11, <2>12 DEF Placed
<1>8. \A i \in 0 .. n : Len(F[i]) + 1 <= Len(whole)
  BY <1>1, <1>3, <1>5, <1>6
<1> QED BY <1>3, <1>4, <1>5, <1>7, <1>8
LEMMA SubSeqIs ==
    ASSUME NEW s \in Seq(Nat), NEW r \in Seq(Nat), NEW a \in Nat, NEW b, b = a + Len(r),
           b <= Len(s), \A j \in 1 .. Len(r) : s[a + j] = r[j]
    PROVE  SubSeq(s, a + 1, b) = r
<1> DEFINE part == SubSeq(s, a + 1, b)
<1>1. Len(s) \in Nat /\ Len(r) \in Nat /\ b \in Nat
  BY LenProperties
<1>2. \A i \in a + 1 .. b : s[i] \in Nat
  <2>1. \A i \in a + 1 .. b : i \in 1 .. Len(s)
    BY <1>1
  <2> QED BY <2>1, ElementOfSeq
<1>3. /\ part \in Seq(Nat)
      /\ Len(part) = IF a + 1 <= b THEN b - (a + 1) + 1 ELSE 0
      /\ \A i \in 1 .. b - (a + 1) + 1 : part[i] = s[a + 1 + i - 1]
  BY <1>1, <1>2, SubSeqProperties
<1> HIDE DEF part
<1>4. Len(part) = Len(r)
  BY <1>1, <1>3
<1>5. \A i \in 1 .. Len(r) : part[i] = r[i]
  <2>1. \A i \in 1 .. Len(r) : i \in 1 .. b - (a + 1) + 1 /\ a + 1 + i - 1 = a + i
    BY <1>1
  <2> QED BY <1>3, <2>1
<1>6. part = r
  BY <1>3, <1>4, <1>5, SeqEqual
<1> QED BY <1>6 DEF part

\* The dump has no other cells than the whole one, as far as both go.
Agrees(whole) == \A i \in 1 .. Len(dump) : i <= Len(whole) => dump[i] = whole[i]

LEMMA SmallRemainder ==
    ASSUME NEW m \in Nat, NEW n \in Nat, m < n
    PROVE  m % n = m
OBVIOUS

LEMMA PlacedRead ==
    ASSUME DumpOK, NEW whole \in Seq(Nat), Len(whole) < usize, Agrees(whole),
           NEW cursor \in 1 .. Len(dump), NEW after, NEW key, NEW value,
           Placed(whole, cursor, after, key, value), after <= Len(whole), NEW map
    PROVE  ReadEntry(Reader(cursor, map)) =
               IF after <= Len(dump) THEN Reader(after, Inserted(map, key, value)) ELSE Refused
<1>1. /\ Len(dump) \in Nat /\ Len(whole) \in Nat /\ cursor \in Nat /\ usize \in Nat
      /\ key \in Seq(Nat) /\ value \in Seq(Nat) /\ Len(key) \in Nat /\ Len(value) \in Nat
  BY LenProperties DEF DumpOK, Placed
<1>2. after = cursor + 2 + Len(key) + Len(value) /\ after \in Nat
  BY <1>1 DEF Placed
<1>3. CASE ~ cursor + 2 <= Len(dump)
  <2>1. ~ after <= Len(dump)
    BY <1>1, <1>2, <1>3
  <2> QED BY <1>3, <2>1, ReadEntryExact DEF DumpOK
<1>4. CASE cursor + 2 <= Len(dump)
  <2>1. dump[cursor + 1] = Len(key) /\ dump[cursor + 2] = Len(value)
    <3>1. cursor + 1 \in 1 .. Len(dump) /\ cursor + 2 \in 1 .. Len(dump)
      BY <1>1, <1>4
    <3>2. cursor + 1 <= Len(whole) /\ cursor + 2 <= Len(whole)
      BY <1>1, <1>2
    <3> QED BY <3>1, <3>2 DEF Agrees, Placed
  <2>2. AsUsize(dump[cursor + 1]) = Len(key) /\ AsUsize(dump[cursor + 2]) = Len(value)
    <3>1. Len(key) < usize /\ Len(value) < usize
      BY <1>1, <1>2
    <3> QED BY <1>1, <2>1, <3>1, SmallRemainder DEF AsUsize
  <2>3. EntryEnd(cursor) = after
    BY <1>2, <2>2 DEF EntryEnd
  <2>4. CASE ~ after <= Len(dump)
    BY <2>3, <2>4, ReadEntryExact DEF DumpOK
  <2>5. CASE after <= Len(dump)
    <3>1. SubSeq(dump, cursor + 3, cursor + 2 + Len(key)) = key
      <4> DEFINE a == cursor + 2
                 b == a + Len(key)
      <4>1. a \in Nat /\ b <= Len(dump) /\ a + 1 = cursor + 3
        BY <1>1, <1>2, <2>5
      <4>2. \A j \in 1 .. Len(key) : a + j \in 1 .. Len(dump) /\ a + j <= Len(whole)
        BY <1>1, <1>2, <2>5
      <4>3. \A j \in 1 .. Len(key) : whole[a + j] = key[j]
        BY DEF Placed
      <4> HIDE DEF a
      <4>4. \A j \in 1 .. Len(key) : dump[a + j] = key[j]
        BY <4>2, <4>3 DEF Agrees
      <4>5. SubSeq(dump, a + 1, b) = key
        BY <1>1, <4>1, <4>4, SubSeqIs DEF DumpOK
      <4> QED BY <4>1, <4>5 DEF a
    <3>2. SubSeq(dump, cursor + 3 + Len(key), after) = value
      <4> DEFINE a == cursor + 2 + Len(key)
      <4>1. a \in Nat /\ after = a + Len(value) /\ a + 1 = cursor + 3 + Len(key)
        BY <1>1, <1>2
      <4>2. \A j \in 1 .. Len(value) : a + j \in 1 .. Len(dump) /\ a + j <= Len(whole)
        BY <1>1, <1>2, <2>5
      <4>3. \A j \in 1 .. Len(value) : whole[a + j] = value[j]
        BY DEF Placed
      <4> HIDE DEF a
      <4>4. \A j \in 1 .. Len(value) : dump[a + j] = value[j]
        BY <4>2, <4>3 DEF Agrees
      <4>5. SubSeq(dump, a + 1, after) = value
        BY <1>1, <2>5, <4>1, <4>4, SubSeqIs DEF DumpOK
      <4> QED BY <4>1, <4>5
    <3>3. Learned(cursor, map) = Inserted(map, key, value)
      BY <2>2, <2>3, <3>1, <3>2 DEF Learned
    <3> QED BY <1>4, <2>3, <2>5, <3>3, ReadEntryExact DEF DumpOK
  <2> QED BY <2>4, <2>5
<1> QED BY <1>3, <1>4

\* What the first n entries of an encoding hold.
FirstOf(order, map, n) == [key \in {order[i] : i \in 1 .. n} |-> map[key]]

LEMMA FirstGrows ==
    ASSUME NEW map, NEW order, NEW n \in Nat
    PROVE  /\ FirstOf(order, map, 0) = <<>>
           /\ Inserted(FirstOf(order, map, n), order[n + 1], map[order[n + 1]])
                = FirstOf(order, map, n + 1)
<1>1. FirstOf(order, map, 0) = <<>>
  <2>1. {order[i] : i \in 1 .. 0} = {}
    OBVIOUS
  <2> QED BY <2>1 DEF FirstOf
<1>2. {order[i] : i \in 1 .. n} \cup {order[n + 1]} = {order[i] : i \in 1 .. n + 1}
  <2>1. 1 .. n + 1 = (1 .. n) \cup {n + 1}
    OBVIOUS
  <2> QED BY <2>1
<1>3. Inserted(FirstOf(order, map, n), order[n + 1], map[order[n + 1]])
        = [key \in {order[i] : i \in 1 .. n} \cup {order[n + 1]} |-> map[key]]
  BY DEF Inserted, FirstOf
<1> QED BY <1>1, <1>2, <1>3 DEF FirstOf

\* Reading goes as far as the dump does.
LEMMA ReadsFirst ==
    ASSUME DumpOK, Len(dump) > 0, NEW map, IsMap(map), NEW whole, NEW n, NEW order, NEW F,
           Encodes(whole, map, n, order, F), Len(whole) < usize, Agrees(whole),
           NEW read, Reads(n, read)
    PROVE  \A i \in 0 .. n :
             read[i] = IF Len(F[i]) + 1 <= Len(dump)
                       THEN Reader(Len(F[i]) + 1, FirstOf(order, map, i)) ELSE Refused
<1> DEFINE Good(i) == read[i] = IF Len(F[i]) + 1 <= Len(dump)
                                THEN Reader(Len(F[i]) + 1, FirstOf(order, map, i)) ELSE Refused
           S == {i \in Nat : i <= n => Good(i)}
<1>1. n \in Nat /\ Len(dump) \in Nat
  BY LenProperties DEF Encodes, DumpOK
<1>2. 0 \in S
  <2>1. read[0] = Reader(1, <<>>)
    BY <1>1, ReadSteps
  <2>2. Len(F[0]) = 0
    BY EncodedCells
  <2> QED BY <1>1, <2>1, <2>2, FirstGrows
<1>3. ASSUME NEW i \in Nat, i \in S PROVE i + 1 \in S
  <2> SUFFICES ASSUME i + 1 <= n PROVE Good(i + 1)
    OBVIOUS
  <2>1. /\ i \in 0 .. n /\ i \in 0 .. n - 1 /\ i + 1 \in 0 .. n /\ i + 1 \in 1 .. n
        /\ (i + 1) - 1 = i
    BY <1>1
  <2>2. read[i + 1] = IF read[i].refused THEN Refused ELSE ReadEntry(read[i])
    BY <1>1, <2>1, ReadSteps
  <2> DEFINE cursor == Len(F[i]) + 1
             after == Len(F[i + 1]) + 1
             key == order[i + 1]
             value == map[key]
  <2>3. /\ whole \in Seq(Nat) /\ cursor \in Nat /\ cursor > 0 /\ after \in Nat
        /\ after <= Len(whole) /\ Placed(whole, cursor, after, key, value)
    BY <2>1, EncodedCells
  <2>4. cursor <= after
    <3> HIDE DEF cursor, after, key, value
    <3>1. /\ after = cursor + 2 + Len(key) + Len(value)
          /\ Len(key) \in Nat /\ Len(value) \in Nat
      BY <2>3, LenProperties DEF Placed
    <3> QED BY <2>3, <3>1
  <2>5. read[i] = IF cursor <= Len(dump) THEN Reader(cursor, FirstOf(order, map, i)) ELSE Refused
    BY <1>3, <2>1
  <2>6. Inserted(FirstOf(order, map, i), key, value) = FirstOf(order, map, i + 1)
    BY FirstGrows
  <2> HIDE DEF cursor, after, key, value
  <2>7. read[i + 1] = IF after <= Len(dump) THEN Reader(after, FirstOf(order, map, i + 1)) ELSE Refused
    <3>1. CASE ~ cursor <= Len(dump)
      <4>1. ~ after <= Len(dump)
        BY <1>1, <2>3, <2>4, <3>1
      <4> QED BY <2>2, <2>5, <3>1, <4>1 DEF Refused
    <3>2. CASE cursor <= Len(dump)
      <4>1. read[i] = Reader(cursor, FirstOf(order, map, i)) /\ ~ read[i].refused
        BY <2>5, <3>2 DEF Reader
      <4>2. cursor \in 1 .. Len(dump)
        BY <1>1, <2>3, <3>2
      <4> QED BY <2>2, <2>3, <2>6, <4>1, <4>2, PlacedRead
    <3> QED BY <3>1, <3>2
  <2> QED BY <2>7 DEF after
<1>4. \A i \in Nat : i \in S
  <2> HIDE DEF S
  <2> QED BY <1>2, <1>3, NumbersFrom
<1> QED BY <1>1, <1>4
\* Each entry takes two cells at least, so that the count fits where the dump does.
LEMMA CountFits ==
    ASSUME NEW map, IsMap(map), NEW whole, NEW n, NEW order, NEW F,
           Encodes(whole, map, n, order, F)
    PROVE  n + 1 <= Len(whole)
<1> DEFINE S == {i \in Nat : i <= n => i <= Len(F[i])}
<1>1. n \in Nat
  BY DEF Encodes
<1>2. 0 \in S
  BY EncodedCells
<1>3. ASSUME NEW i \in Nat, i \in S PROVE i + 1 \in S
  <2> SUFFICES ASSUME i + 1 <= n PROVE i + 1 <= Len(F[i + 1])
    OBVIOUS
  <2>1. i \in 0 .. n /\ i \in 0 .. n - 1 /\ i + 1 \in 0 .. n
    BY <1>1
  <2> DEFINE past == Len(F[i])
             next == Len(F[i + 1])
             key == order[i + 1]
             value == map[key]
  <2>2. past \in Nat /\ next \in Nat /\ Placed(whole, past + 1, next + 1, key, value)
    BY <2>1, EncodedCells
  <2>3. i <= past
    BY <1>3, <2>1
  <2> HIDE DEF past, next, key, value
  <2>4. /\ next + 1 = (past + 1) + 2 + Len(key) + Len(value)
        /\ Len(key) \in Nat /\ Len(value) \in Nat
    BY <2>2, LenProperties DEF Placed
  <2>5. i + 1 <= next
    BY <2>2, <2>3, <2>4
  <2> QED BY <2>5 DEF next
<1>4. n \in S
  <2> HIDE DEF S
  <2> QED BY <1>1, <1>2, <1>3, NumbersFrom
<1>5. Len(whole) = Len(F[n]) + 1 /\ Len(F[n]) \in Nat
  <2>1. n \in 0 .. n
    BY <1>1
  <2> QED BY <2>1, EncodedCells
<1> QED BY <1>1, <1>4, <1>5

\* A whole dump is read to its end, as the map it was made of; a torn one is refused.
LEMMA WholeDecoded ==
    ASSUME DumpOK, NEW map, IsMap(map), NEW whole \in Encodings(map),
           Len(whole) < usize, Agrees(whole)
    PROVE  /\ Len(dump) = Len(whole) => ~ Decoded.refused /\ Decoded.map = map
           /\ Len(dump) # Len(whole) => Decoded.refused
<1>1. PICK n, order, F : Encodes(whole, map, n, order, F)
  BY EncodingsEncode
<1>2. /\ n \in Nat /\ Len(dump) \in Nat /\ whole \in Seq(Nat) /\ Len(whole) \in Nat
      /\ whole[1] = n /\ Len(whole) = Len(F[n]) + 1 /\ Len(F[n]) \in Nat
  <2>1. n \in Nat /\ n \in 0 .. n
    BY <1>1 DEF Encodes
  <2>2. whole \in Seq(Nat) /\ whole[1] = n /\ Len(whole) = Len(F[n]) + 1 /\ Len(F[n]) \in Nat
    BY <1>1, <2>1, EncodedCells
  <2> QED BY <2>1, <2>2, LenProperties DEF DumpOK
<1>3. Within(0, 1) <=> Len(dump) > 0
  <2>1. Within(0, 1) <=> 0 + 1 <= Len(dump)
    BY WithinExact DEF DumpOK
  <2> QED BY <1>2, <2>1
<1>4. CASE Len(dump) = 0
  <2>1. Decoded = Refused
    BY <1>3, <1>4 DEF Decoded
  <2> QED BY <1>2, <1>4, <2>1 DEF Refused
<1>5. CASE Len(dump) > 0
  <2>1. n < usize
    <3>1. n + 1 <= Len(whole)
      BY <1>1, <1>2, CountFits
    <3> QED BY <1>2, <3>1 DEF DumpOK
  <2>2. dump[1] = n /\ AsUsize(dump[1]) = n
    <3>1. 1 \in 1 .. Len(dump) /\ 1 <= Len(whole)
      BY <1>2, <1>5
    <3>2. dump[1] = n
      BY <1>2, <3>1 DEF Agrees
    <3> QED BY <1>2, <2>1, <3>2, SmallRemainder DEF AsUsize, DumpOK
  <2>3. PICK read : Reads(n, read) /\ Entries(n) = read[n]
    BY <1>2, EntriesRead
  <2>4. read[n] = IF Len(whole) <= Len(dump) THEN Reader(Len(whole), FirstOf(order, map, n)) ELSE Refused
    <3>1. n \in 0 .. n
      BY <1>2
    <3>2. read[n] = IF Len(F[n]) + 1 <= Len(dump)
                    THEN Reader(Len(F[n]) + 1, FirstOf(order, map, n)) ELSE Refused
      BY <1>1, <1>5, <2>3, <3>1, ReadsFirst
    <3> QED BY <1>2, <3>2
  <2>5. FirstOf(order, map, n) = map
    <3>1. {order[i] : i \in 1 .. n} = DOMAIN map
      BY <1>1 DEF Encodes
    <3>2. map = [key \in DOMAIN map |-> map[key]]
      BY DEF IsMap
    <3> QED BY <3>1, <3>2 DEF FirstOf
  <2>6. Decoded = IF read[n].refused \/ read[n].cursor # Len(dump) THEN Refused ELSE read[n]
    BY <1>3, <1>5, <2>2, <2>3 DEF Decoded
  <2>7. CASE Len(whole) <= Len(dump)
    <3>1. /\ read[n] = Reader(Len(whole), map)
          /\ ~ read[n].refused /\ read[n].cursor = Len(whole) /\ read[n].map = map
      BY <2>4, <2>5, <2>7 DEF Reader
    <3> QED BY <2>6, <3>1 DEF Refused
  <2>8. CASE ~ Len(whole) <= Len(dump)
    <3>1. Decoded = Refused
      BY <2>4, <2>6, <2>8 DEF Refused
    <3> QED BY <1>2, <2>8, <3>1 DEF Refused
  <2> QED BY <2>7, <2>8
<1> QED BY <1>2, <1>4, <1>5
-----------------------------------------------------------------------------
(* The invariant: an intact dump is an encoding of what was saved, a torn one agrees with *)
(* an encoding that is longer or shorter.                                                 *)

DumpInv ==
    /\ DumpOK
    /\ IsMap(storage) /\ IsMap(saved)
    /\ damage = "none" => dump \in Encodings(saved)
    /\ damage = "torn" =>
         \E whole \in Encodings(saved) :
             Len(whole) < usize /\ Len(dump) # Len(whole) /\ Agrees(whole)

LEMMA EncodingsAreSeqs ==
    ASSUME NEW map, IsMap(map), NEW whole \in Encodings(map)
    PROVE  whole \in Seq(Nat) /\ (DOMAIN map = {} => Len(whole) = 1)
<1>1. PICK n, order, F : Encodes(whole, map, n, order, F)
  BY EncodingsEncode
<1>2. n \in Nat /\ order \in [1 .. n -> DOMAIN map]
  BY <1>1 DEF Encodes
<1>3. whole \in Seq(Nat) /\ Len(whole) = Len(F[n]) + 1 /\ Len(F[0]) = 0
  BY <1>1, EncodedCells
<1>4. DOMAIN map = {} => n = 0
  BY <1>2
<1> QED BY <1>3, <1>4

LEMMA InitDump == Init => DumpInv
<1> SUFFICES ASSUME Init PROVE DumpInv
  OBVIOUS
<1>1. usize \in Nat /\ usize > 2
  BY WidthsAssumption DEF Init
<1>2. IsMap(storage) /\ DOMAIN storage = {} /\ saved = storage
  BY EmptyMap DEF Init
<1>3. dump \in Encodings(storage) /\ damage = "none"
  BY DEF Init
<1>4. dump \in Seq(Nat) /\ Len(dump) = 1
  BY <1>2, <1>3, EncodingsAreSeqs
<1> QED BY <1>1, <1>2, <1>3, <1>4 DEF DumpInv, DumpOK, Fits

LEMMA DecodedMap ==
    ASSUME DumpOK, ~ Decoded.refused
    PROVE  IsMap(Decoded.map)
<1>1. Within(0, 1) /\ Decoded # Refused
  BY DEF Decoded, Refused
<1>2. Len(dump) \in Nat /\ Len(dump) > 0
  <2>1. Within(0, 1) <=> 0 + 1 <= Len(dump)
    BY WithinExact DEF DumpOK
  <2> QED BY <1>1, <2>1, LenProperties DEF DumpOK
<1> DEFINE count == AsUsize(dump[1])
<1>3. count \in Nat
  <2>1. dump[1] \in Nat
    BY <1>2, CellNat DEF DumpOK
  <2> QED BY <2>1 DEF AsUsize, DumpOK
<1> HIDE DEF count
<1>4. PICK read : Reads(count, read) /\ Entries(count) = read[count]
  BY <1>3, EntriesRead
<1>5. Decoded = read[count]
  BY <1>1, <1>4 DEF Decoded, count
<1>6. Sound(read[count])
  BY <1>2, <1>3, <1>4, ReadingSound
<1>7. PICK cursor, map : read[count] = Reader(cursor, map) /\ IsMap(map)
  BY <1>1, <1>5, <1>6 DEF Sound
<1>8. Decoded.map = map
  BY <1>5, <1>7 DEF Reader
<1> QED BY <1>7, <1>8

LEMMA WriteDump ==
    ASSUME DumpInv, NEW key \in Keys, NEW value \in Values, Write(key, value)
    PROVE  DumpInv'
<1>1. IsMap(storage')
  BY CellsAssumption, MapGrows DEF Write, DumpInv
<1> QED BY <1>1 DEF Write, DumpInv, DumpOK, Fits, Agrees

LEMMA DeleteDump ==
    ASSUME DumpInv, NEW key \in Keys, Delete(key)
    PROVE  DumpInv'
<1> DEFINE less == [other \in DOMAIN storage \ {key} |-> storage[other]]
<1>1. IsFiniteSet(DOMAIN storage \ {key})
  BY FS_RemoveElement DEF DumpInv, IsMap
<1>2. IsMap(less)
  BY <1>1 DEF DumpInv, IsMap
<1>3. storage' = less
  BY DEF Delete
<1> QED BY <1>2, <1>3 DEF Delete, DumpInv, DumpOK, Fits, Agrees

LEMMA ExportDump ==
    ASSUME DumpInv, Export
    PROVE  DumpInv'
<1>1. dump' \in Encodings(storage) /\ dump' \in Seq(Nat) /\ Len(dump') < usize - 1
  BY EncodingsAreSeqs DEF Export, DumpInv, Fits
<1> QED BY <1>1 DEF Export, DumpInv, DumpOK, Fits

LEMMA TearDump ==
    ASSUME DumpInv, Tear
    PROVE  DumpInv'
<1>1. /\ dump \in Encodings(saved) /\ dump \in Seq(Nat) /\ Len(dump) \in Nat
      /\ usize \in Nat /\ usize > 2 /\ Len(dump) < usize - 1
  BY LenProperties DEF Tear, DumpInv, DumpOK, Fits
<1>2. ASSUME dump' \in Seq(Nat), Len(dump') < usize - 1, Len(dump') # Len(dump),
             \A i \in 1 .. Len(dump') : i <= Len(dump) => dump'[i] = dump[i]
      PROVE  DumpInv'
  <2>1. \E whole \in Encodings(saved) :
          /\ Len(whole) < usize /\ Len(dump') # Len(whole)
          /\ \A i \in 1 .. Len(dump') : i <= Len(whole) => dump'[i] = whole[i]
    BY <1>1, <1>2
  <2> QED BY <1>2, <2>1 DEF Tear, DumpInv, DumpOK, Fits, Agrees
<1>3. ASSUME NEW length \in 0 .. Len(dump) - 1, dump' = SubSeq(dump, 1, length)
      PROVE  DumpInv'
  <2>1. \A i \in 1 .. length : dump[i] \in Nat
    BY <1>1, CellNat
  <2>2. /\ dump' \in Seq(Nat) /\ Len(dump') = length
        /\ \A i \in 1 .. length : dump'[i] = dump[i]
    <3>1. /\ dump' \in Seq(Nat) /\ Len(dump') = IF 1 <= length THEN length - 1 + 1 ELSE 0
          /\ \A i \in 1 .. length - 1 + 1 : dump'[i] = dump[1 + i - 1]
      BY <1>1, <1>3, <2>1, SubSeqProperties
    <3> QED BY <1>1, <3>1
  <2> QED BY <1>1, <1>2, <2>2
<1>4. ASSUME NEW cell \in Cells, dump' = Append(dump, cell), Fits(dump')
      PROVE  DumpInv'
  <2>1. cell \in Nat
    BY CellsAssumption
  <2>2. /\ dump' \in Seq(Nat) /\ Len(dump') = Len(dump) + 1
        /\ \A i \in 1 .. Len(dump) : dump'[i] = dump[i]
    BY <1>1, <1>4, <2>1, AppendProperties
  <2> QED BY <1>1, <1>2, <1>4, <2>2 DEF Fits
<1> QED BY <1>3, <1>4 DEF Tear

LEMMA ChangeDump ==
    ASSUME DumpInv, Change
    PROVE  DumpInv'
<1>1. PICK i \in DOMAIN dump, cell \in Cells : dump' = [dump EXCEPT ![i] = cell]
  BY DEF Change
<1>2. dump \in Seq(Nat) /\ i \in 1 .. Len(dump) /\ cell \in Nat
  BY LenProperties, CellsAssumption DEF DumpInv, DumpOK
<1>3. dump' \in Seq(Nat) /\ Len(dump') = Len(dump)
  BY <1>1, <1>2, ExceptSeq
<1> QED BY <1>3 DEF Change, DumpInv, DumpOK, Fits, IsMap

LEMMA RestoreDump ==
    ASSUME DumpInv, Restore
    PROVE  DumpInv'
<1>1. IsMap(storage')
  BY DecodedMap DEF Restore, DumpInv
<1> QED BY <1>1 DEF Restore, DumpInv, DumpOK, Fits, Agrees

LEMMA DumpAlways == Spec => []DumpInv
<1>1. DumpInv /\ [Next]_vars => DumpInv'
  <2> SUFFICES ASSUME DumpInv, [Next]_vars PROVE DumpInv'
    OBVIOUS
  <2>1. CASE UNCHANGED vars
    BY <2>1 DEF vars, DumpInv, DumpOK, Fits, Agrees
  <2> QED BY <2>1, WriteDump, DeleteDump, ExportDump, TearDump, ChangeDump, RestoreDump DEF Next
<1> QED BY InitDump, <1>1, PTL DEF Spec

\* In whatever order the storage was written out, a dump that came back as it was is read as the
\* storage encode_storage() had (RoundTrip), for any keys and values.
THEOREM RoundTripCorrect == Spec => []RoundTrip
<1>1. DumpInv => RoundTrip
  <2> SUFFICES ASSUME DumpInv, damage = "none" PROVE ~ Decoded.refused /\ Decoded.map = saved
    BY DEF RoundTrip
  <2>1. DumpOK /\ IsMap(saved) /\ dump \in Encodings(saved)
    BY DEF DumpInv
  <2>2. Len(dump) < usize
    BY <2>1, LenProperties DEF DumpOK, Fits
  <2>3. Agrees(dump)
    BY DEF Agrees
  <2> QED BY <2>1, <2>2, <2>3, WholeDecoded
<1> QED BY <1>1, DumpAlways, PTL

\* decode_storage() refuses a dump that was cut short or goes on after its last entry (TornRefused),
\* wherever it was cut and whatever follows.
THEOREM TornRefusedCorrect == Spec => []TornRefused
<1>1. DumpInv => TornRefused
  <2> SUFFICES ASSUME DumpInv, damage = "torn" PROVE Decoded.refused
    BY DEF TornRefused
  <2>1. DumpOK /\ IsMap(saved)
    BY DEF DumpInv
  <2>2. PICK whole \in Encodings(saved) :
          Len(whole) < usize /\ Len(dump) # Len(whole) /\ Agrees(whole)
    BY DEF DumpInv
  <2> QED BY <2>1, <2>2, WholeDecoded
<1> QED BY <1>1, DumpAlways, PTL
-----------------------------------------------------------------------------
(* The reader and the format. *)

LEMMA LeastIs ==
    ASSUME NEW T \in SUBSET Nat, NEW x \in T, \A y \in T : x <= y
    PROVE  Min(T) = x
<1>1. \A z \in T : (\A y \in T : z <= y) => z = x
  BY SMT
<1> QED BY <1>1 DEF Min

\* How the cursor moves on, and where it stops.
LEMMA CursorMoves ==
    ASSUME DumpOK, Len(dump) > 0, NEW count \in Nat, NEW read, Reads(count, read),
           NEW n \in 0 .. count - 1
    PROVE  /\ read[n].refused => read[n + 1].refused
           /\ ~ read[n].refused =>
                /\ read[n].cursor \in 1 .. Len(dump)
                /\ IF read[n].cursor + 2 <= Len(dump) /\ EntryEnd(read[n].cursor) <= Len(dump)
                   THEN ~ read[n + 1].refused /\ read[n + 1].cursor = EntryEnd(read[n].cursor)
                   ELSE read[n + 1].refused
<1>1. n \in 0 .. count /\ n + 1 \in 1 .. count /\ (n + 1) - 1 = n
  OBVIOUS
<1>2. read[n + 1] = IF read[n].refused THEN Refused ELSE ReadEntry(read[n])
  BY <1>1, ReadSteps
<1>3. Sound(read[n])
  BY <1>1, ReadingSound
<1>4. CASE read[n] = Refused
  <2>1. read[n].refused
    BY <1>4 DEF Refused
  <2> QED BY <1>2, <1>4, <2>1
<1>5. ASSUME NEW cursor \in 1 .. Len(dump), NEW map, read[n] = Reader(cursor, map)
      PROVE  /\ ~ read[n].refused /\ read[n].cursor = cursor
             /\ IF cursor + 2 <= Len(dump) /\ EntryEnd(cursor) <= Len(dump)
                THEN ~ read[n + 1].refused /\ read[n + 1].cursor = EntryEnd(cursor)
                ELSE read[n + 1].refused
  <2>1. ~ read[n].refused /\ read[n].cursor = cursor
    BY <1>5 DEF Reader
  <2>2. read[n + 1] = ReadEntry(Reader(cursor, map))
    BY <1>2, <1>5, <2>1
  <2>3. read[n + 1] = IF cursor + 2 <= Len(dump) /\ EntryEnd(cursor) <= Len(dump)
                      THEN Reader(EntryEnd(cursor), Learned(cursor, map)) ELSE Refused
    BY <2>2, ReadEntryExact DEF DumpOK
  <2> QED BY <2>1, <2>3 DEF Reader, Refused
<1> QED BY <1>3, <1>4, <1>5 DEF Sound

\* A dump read to its end is cut where the cursor has been.
LEMMA ReadIsFormat ==
    ASSUME DumpOK, Len(dump) > 0, NEW count \in Nat, count = AsUsize(dump[1]),
           NEW read, Reads(count, read),
           ~ read[count].refused, read[count].cursor = Len(dump)
    PROVE  WellFormed
<1>0. Len(dump) \in Nat
  BY LenProperties DEF DumpOK
<1>1. \A n \in 0 .. count : ~ read[n].refused
  <2> DEFINE S == {d \in Nat : d <= count => ~ read[count - d].refused}
  <2>1. 0 \in S
    OBVIOUS
  <2>2. ASSUME NEW d \in Nat, d \in S PROVE d + 1 \in S
    <3> SUFFICES ASSUME d + 1 <= count PROVE ~ read[count - (d + 1)].refused
      OBVIOUS
    <3>1. count - (d + 1) \in 0 .. count - 1 /\ count - (d + 1) + 1 = count - d
      OBVIOUS
    <3>2. ~ read[count - d].refused
      BY <2>2
    <3> QED BY <3>1, <3>2, CursorMoves
  <2>3. \A d \in Nat : d \in S
    <3> HIDE DEF S
    <3> QED BY <2>1, <2>2, NumbersFrom
  <2> TAKE n \in 0 .. count
  <2>4. count - n \in Nat /\ count - n <= count /\ count - (count - n) = n
    OBVIOUS
  <2> QED BY <2>3, <2>4
<1> DEFINE cut == [n \in 0 .. count |-> read[n].cursor]
           cuts == {cut[n] : n \in 0 .. count}
<1>2. \A n \in 0 .. count : cut[n] = read[n].cursor /\ cut[n] \in 1 .. Len(dump)
  <2>1. \A n \in 0 .. count - 1 : read[n].cursor \in 1 .. Len(dump)
    <3> TAKE n \in 0 .. count - 1
    <3>1. n \in 0 .. count
      OBVIOUS
    <3> QED BY <1>1, <3>1, CursorMoves
  <2>2. read[count].cursor \in 1 .. Len(dump)
    BY <1>0
  <2> QED BY <2>1, <2>2
<1>3. \A n \in 0 .. count - 1 : cut[n] + 2 <= cut[n + 1] /\ cut[n + 1] = EntryEnd(cut[n])
  <2> TAKE n \in 0 .. count - 1
  <2>1. n \in 0 .. count /\ n + 1 \in 0 .. count
    OBVIOUS
  <2>2. /\ cut[n] + 2 <= Len(dump) /\ EntryEnd(cut[n]) <= Len(dump)
        /\ cut[n + 1] = EntryEnd(cut[n])
    BY <1>1, <1>2, <2>1, CursorMoves
  <2> HIDE DEF cut
  <2>3. cut[n] \in 1 .. Len(dump)
    BY <1>2, <2>1
  <2>4. AsUsize(dump[cut[n] + 1]) \in Nat /\ AsUsize(dump[cut[n] + 2]) \in Nat
    BY <2>2, <2>3, ReadEntryExact DEF DumpOK
  <2>5. cut[n] + 2 <= EntryEnd(cut[n])
    BY <1>0, <2>3, <2>4 DEF EntryEnd
  <2> QED BY <2>2, <2>5
<1>4. cut[0] = 1 /\ cut[count] = Len(dump)
  <2>1. read[0].cursor = 1
    BY ReadSteps DEF Reader
  <2> QED BY <2>1
<1>5. DOMAIN cut = 0 .. count /\ cut \in [0 .. count -> Nat]
  BY <1>0, <1>2
<1> HIDE DEF cut
<1>6. \A i, j \in 0 .. count : i < j => cut[i] < cut[j]
  <2> TAKE i, j \in 0 .. count
  <2> DEFINE S == {d \in Nat : i + d <= count => cut[i] + d <= cut[i + d]}
  <2>1. 0 \in S
    BY <1>5
  <2>2. ASSUME NEW d \in Nat, d \in S PROVE d + 1 \in S
    <3> SUFFICES ASSUME i + (d + 1) <= count PROVE cut[i] + (d + 1) <= cut[i + (d + 1)]
      OBVIOUS
    <3> DEFINE k == i + d
    <3>1. k \in 0 .. count - 1 /\ k \in 0 .. count /\ k + 1 \in 0 .. count /\ i + (d + 1) = k + 1
      OBVIOUS
    <3>2. cut[i] + d <= cut[k]
      BY <2>2, <3>1
    <3> HIDE DEF k
    <3>3. cut[k] + 2 <= cut[k + 1]
      BY <1>3, <3>1
    <3>4. cut[i] \in Nat /\ cut[k] \in Nat /\ cut[k + 1] \in Nat
      BY <1>5, <3>1
    <3> HIDE DEF S
    <3>5. \A a, b, c, n \in Nat : a + n <= b /\ b + 2 <= c => a + (n + 1) <= c
      OBVIOUS
    <3>6. cut[i] + (d + 1) <= cut[k + 1]
      BY <3>2, <3>3, <3>4, <3>5, Zenon
    <3> QED BY <3>1, <3>6
  <2> HAVE i < j
  <2>3. j - i \in S
    <3> HIDE DEF S
    <3>1. j - i \in Nat
      OBVIOUS
    <3> QED BY <2>1, <2>2, <3>1, NumbersFrom
  <2>4. i + (j - i) = j /\ j - i > 0 /\ j - i \in Nat
    OBVIOUS
  <2>5. cut[i] + (j - i) <= cut[j]
    BY <2>3, <2>4
  <2>6. cut[i] \in Nat /\ cut[j] \in Nat
    BY <1>5
  <2> QED BY <2>4, <2>5, <2>6
<1>7. Cardinality(cuts) = count + 1
  <2>1. cut \in Bijection(0 .. count, cuts)
    <3>1. cut \in [0 .. count -> cuts]
      BY <1>5
    <3>2. \A i, j \in 0 .. count : cut[i] = cut[j] => i = j
      <4> TAKE i, j \in 0 .. count
      <4> HAVE cut[i] = cut[j]
      <4>1. ~ i < j /\ ~ j < i
        BY <1>5, <1>6
      <4> QED BY <4>1
    <3> QED BY <1>5, <3>1, <3>2 DEF Bijection, Injection, Surjection, IsInjective
  <2>2. IsFiniteSet(0 .. count) /\ Cardinality(0 .. count) = count + 1
    <3>1. 0 \in Int /\ count \in Int /\ ~ 0 > count /\ count - 0 + 1 = count + 1
      OBVIOUS
    <3> QED BY <3>1, FS_Interval
  <2>3. ExistsBijection(0 .. count, cuts)
    BY <2>1 DEF ExistsBijection
  <2> QED BY <2>2, <2>3, FS_Bijection
<1>8. cuts \in kSubset(AsUsize(dump[1]) + 1, 1 .. Len(dump))
  <2>1. cuts \subseteq 1 .. Len(dump)
    BY <1>2
  <2> HIDE DEF cuts
  <2> QED BY <1>7, <2>1 DEF kSubset
<1>9. {1, Len(dump)} \subseteq cuts
  <2>1. 0 \in 0 .. count /\ count \in 0 .. count
    OBVIOUS
  <2> QED BY <1>4, <2>1
<1>10. ASSUME NEW start \in cuts \ {Len(dump)}
       PROVE  LET next == Min({other \in cuts : other > start})
              IN start + 2 <= next /\ EntryEnd(start) = next
  <2>1. PICK n \in 0 .. count : start = cut[n]
    OBVIOUS
  <2>2. n \in 0 .. count - 1 /\ n + 1 \in 0 .. count
    BY <1>4, <2>1
  <2> DEFINE after == {other \in cuts : other > start}
  <2>3. cut[n + 1] \in after
    BY <1>6, <2>1, <2>2
  <2>4. \A other \in after : cut[n + 1] <= other
    <3> TAKE other \in after
    <3>1. PICK m \in 0 .. count : other = cut[m] /\ cut[m] > cut[n]
      BY <2>1
    <3>2. cut[m] \in Nat /\ cut[n] \in Nat /\ cut[n + 1] \in Nat
      BY <1>5, <2>2
    <3>3. ~ m < n /\ m # n
      BY <1>6, <3>1, <3>2
    <3>4. m = n + 1 \/ n + 1 < m
      BY <3>3
    <3> QED BY <1>6, <2>2, <3>1, <3>2, <3>4
  <2>5. after \in SUBSET Nat
    BY <1>5
  <2>6. Min(after) = cut[n + 1]
    <3> HIDE DEF after
    <3> QED BY <2>3, <2>4, <2>5, LeastIs
  <2> QED BY <1>3, <2>1, <2>2, <2>6
<1>11. dump # <<>>
  <2>1. Len(<<>>) = 0
    BY EmptySeq
  <2> QED BY <2>1
<1> HIDE DEF cuts
<1> QED BY <1>8, <1>9, <1>10, <1>11 DEF WellFormed
\* A dump that can be cut is read to its end: the cursor goes from cut to cut, and leaves
\* as many cuts behind it as it has read entries.
LEMMA FormatIsRead ==
    ASSUME DumpOK, Len(dump) > 0, NEW count \in Nat, count = AsUsize(dump[1]),
           NEW read, Reads(count, read), WellFormed
    PROVE  ~ read[count].refused /\ read[count].cursor = Len(dump)
<1>0. Len(dump) \in Nat
  BY LenProperties DEF DumpOK
<1>1. PICK cuts \in kSubset(count + 1, 1 .. Len(dump)) :
        /\ {1, Len(dump)} \subseteq cuts
        /\ \A start \in cuts \ {Len(dump)} :
             LET next == Min({cut \in cuts : cut > start})
             IN start + 2 <= next /\ EntryEnd(start) = next
  BY DEF WellFormed
<1>2. cuts \subseteq 1 .. Len(dump) /\ Cardinality(cuts) = count + 1
  BY DEF kSubset
<1>3. IsFiniteSet(cuts)
  <2>1. IsFiniteSet(1 .. Len(dump))
    BY <1>0, FS_Interval
  <2> QED BY <1>2, <2>1, FS_Subset
<1> DEFINE Below(c) == {cut \in cuts : cut < c}
           Good(n) == /\ ~ read[n].refused /\ read[n].cursor \in cuts
                      /\ Cardinality(Below(read[n].cursor)) = n
           S == {n \in Nat : n <= count => Good(n)}
\* The cuts up to a cut, and how many they are.
<1>4. ASSUME NEW c \in cuts
      PROVE  /\ IsFiniteSet(Below(c) \cup {c}) /\ Below(c) \cup {c} \subseteq cuts
             /\ Cardinality(Below(c) \cup {c}) = Cardinality(Below(c)) + 1
  <2>1. IsFiniteSet(Below(c))
    BY <1>3, FS_Subset
  <2>2. c \notin Below(c)
    BY <1>2
  <2> HIDE DEF Below
  <2>3. /\ IsFiniteSet(Below(c) \cup {c})
        /\ Cardinality(Below(c) \cup {c}) = Cardinality(Below(c)) + 1
    BY <2>1, <2>2, FS_AddElement
  <2>4. Below(c) \subseteq cuts
    BY DEF Below
  <2> QED BY <2>3, <2>4
<1>5. 0 \in S
  <2>1. read[0].cursor = 1 /\ ~ read[0].refused
    BY ReadSteps DEF Reader
  <2>2. Below(1) = {}
    BY <1>0, <1>2
  <2> QED BY <1>1, <2>1, <2>2, FS_EmptySet
<1>6. ASSUME NEW n \in Nat, n \in S PROVE n + 1 \in S
  <2> SUFFICES ASSUME n + 1 <= count PROVE Good(n + 1)
    OBVIOUS
  <2> DEFINE c == read[n].cursor
             after == {cut \in cuts : cut > c}
  <2>1. n \in 0 .. count - 1
    OBVIOUS
  <2>2. ~ read[n].refused /\ c \in cuts /\ Cardinality(Below(c)) = n
    BY <1>6
  <2> HIDE DEF c, S
  <2>3. c \in Nat /\ c <= Len(dump)
    BY <1>0, <1>2, <2>2
  <2>4. c # Len(dump)
    <3> SUFFICES ASSUME c = Len(dump) PROVE FALSE
      OBVIOUS
    <3>1. cuts = Below(c) \cup {c}
      <4>1. \A cut \in cuts : cut < c \/ cut = c
        BY <1>0, <1>2
      <4> QED BY <2>2, <4>1
    <3> HIDE DEF Below
    <3>2. Cardinality(cuts) = n + 1
      BY <1>4, <2>2, <3>1
    <3> QED BY <1>2, <3>2
  <2>5. after \in SUBSET Nat /\ Len(dump) \in after
    <3>1. Len(dump) \in cuts /\ Len(dump) > c
      BY <1>0, <1>1, <2>3, <2>4
    <3>2. cuts \subseteq Nat
      BY <1>0, <1>2
    <3> QED BY <3>1, <3>2
  <2>6. PICK x \in after : \A y \in after : x <= y
    <3> HIDE DEF after
    <3> QED BY <2>5, LeastNumber
  <2>7. Min(after) = x
    <3> HIDE DEF after
    <3> QED BY <2>5, <2>6, LeastIs
  <2>8. c + 2 <= x /\ EntryEnd(c) = x
    BY <1>1, <2>2, <2>4, <2>7
  <2>9. x \in cuts /\ x > c /\ x \in Nat /\ x <= Len(dump)
    BY <1>0, <1>2, <2>5, <2>6
  <2>10. ~ read[n + 1].refused /\ read[n + 1].cursor = x
    <3>1. c + 2 <= Len(dump) /\ EntryEnd(c) <= Len(dump)
      BY <1>0, <2>3, <2>8, <2>9
    <3> QED BY <2>1, <2>2, <2>8, <3>1, CursorMoves DEF c
  <2>11. Below(x) = Below(c) \cup {c}
    <3>1. \A cut \in cuts : cut \in Nat /\ (cut > c => x <= cut)
      BY <1>0, <1>2, <2>6
    <3>2. \A cut \in cuts : cut < x <=> cut < c \/ cut = c
      BY <2>3, <2>9, <3>1
    <3> QED BY <2>2, <3>2
  <2> HIDE DEF Below
  <2>12. Cardinality(Below(x)) = n + 1
    BY <1>4, <2>2, <2>11
  <2> QED BY <2>9, <2>10, <2>12
<1>7. Good(count)
  <2>1. count \in S
    <3> HIDE DEF S
    <3> QED BY <1>5, <1>6, NumbersFrom
  <2> QED BY <2>1
<1> DEFINE c == read[count].cursor
<1>8. c \in cuts /\ Cardinality(Below(c)) = count
  BY <1>7
<1> HIDE DEF c
<1>9. Below(c) \cup {c} = cuts
  <2> HIDE DEF Below
  <2>1. Cardinality(cuts) = Cardinality(Below(c) \cup {c})
    BY <1>2, <1>4, <1>8
  <2> QED BY <1>3, <1>4, <1>8, <2>1, FS_Subset
<1>10. Len(dump) <= c /\ c <= Len(dump)
  <2>1. Len(dump) < c \/ Len(dump) = c
    BY <1>1, <1>9
  <2> QED BY <1>0, <1>2, <1>8, <2>1
<1>11. c = Len(dump)
  BY <1>0, <1>2, <1>8, <1>10
<1> QED BY <1>7, <1>11 DEF c

\* decode_storage() accepts the byte strings of the format and no other (FormatExact): for every
\* dump that was exported, and every damaged one.
THEOREM FormatExactCorrect == Spec => []FormatExact
<1>1. DumpInv => FormatExact
  <2> SUFFICES ASSUME DumpInv PROVE ~ Decoded.refused <=> WellFormed
    BY DEF FormatExact
  <2>1. DumpOK /\ Len(dump) \in Nat
    BY LenProperties DEF DumpInv, DumpOK
  <2>2. Within(0, 1) <=> Len(dump) > 0
    <3>1. Within(0, 1) <=> 0 + 1 <= Len(dump)
      BY <2>1, WithinExact DEF DumpOK
    <3> QED BY <2>1, <3>1
  <2>3. CASE Len(dump) = 0
    <3>1. dump = <<>>
      BY <2>1, <2>3, EmptySeq DEF DumpOK
    <3>2. Decoded = Refused
      BY <2>2, <2>3 DEF Decoded
    <3> QED BY <3>1, <3>2 DEF Refused, WellFormed
  <2>4. CASE Len(dump) > 0
    <3> DEFINE count == AsUsize(dump[1])
    <3>1. count \in Nat
      <4>1. dump[1] \in Nat
        BY <2>1, <2>4, CellNat DEF DumpOK
      <4> QED BY <2>1, <4>1 DEF AsUsize, DumpOK
    <3>2. PICK read : Reads(count, read) /\ Entries(count) = read[count]
      <4> HIDE DEF count
      <4> QED BY <3>1, EntriesRead
    <3>3. Decoded = IF read[count].refused \/ read[count].cursor # Len(dump)
                    THEN Refused ELSE read[count]
      BY <2>2, <2>4, <3>2 DEF Decoded
    <3>4. ~ Decoded.refused <=> ~ read[count].refused /\ read[count].cursor = Len(dump)
      BY <3>3 DEF Refused
    <3>5. WellFormed <=> ~ read[count].refused /\ read[count].cursor = Len(dump)
      BY <2>1, <2>4, <3>1, <3>2, ReadIsFormat, FormatIsRead
    <3> QED BY <3>4, <3>5
  <2> QED BY <2>1, <2>3, <2>4
<1> QED BY <1>1, DumpAlways, PTL
=============================================================================
