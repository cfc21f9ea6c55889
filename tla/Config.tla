-------------------------------- MODULE Config --------------------------------
(***************************************************************************)
(* rapidsmpf::config::Options: option values that are parsed when they are *)
(* first read, and the format in which options travel to other processes.  *)
(* Every operation holds the mutex of the shared options throughout.       *)
(*                                                                         *)
(* A serialized buffer is a sequence of units, where the prelude, a count, *)
(* an offset, a character and the checksum take one unit each; the         *)
(* checksum tells any two data regions apart.                              *)
(***************************************************************************)
EXTENDS Integers, Sequences, SequencesExt, FiniteSets, Functions

CONSTANTS
    InsertedKeys,     \* the keys that users insert, not normalised
    Texts,            \* the string representations that they insert
    ReadKeys,         \* the keys that get() is called with, in lower case
    Types,            \* the types that options are read as
    MAX_OPTIONS,
    MAX_KEY_LEN,
    MAX_VALUE_LEN,
    MAX_TOTAL_SIZE

-----------------------------------------------------------------------------
(* Strings: sequences of characters, which are a blank, a lower case letter *)
(* and its upper case.                                                      *)

blank == 1
lower == 2
upper == 3

\* A stream extraction: leading blanks are skipped, and what follows the first word is lost.
trim(s) ==
    LET First(P(_), n) == CHOOSE i \in n .. Len(s) + 1 :
            /\ i <= Len(s) => P(s[i])
            /\ \A j \in n .. i - 1 : ~P(s[j])
        from == First(LAMBDA c : c # blank, 1)
    IN  SubSeq(s, from, First(LAMBDA c : c = blank, from) - 1)
to_lower(s) == [i \in DOMAIN s |-> IF s[i] = upper THEN lower ELSE s[i]]

\* The order of std::string.
Precedes(s, t) ==
    \/ IsStrictPrefix(s, t)
    \/ \E i \in DOMAIN s \cap DOMAIN t :
          s[i] < t[i] /\ SubSeq(s, 1, i - 1) = SubSeq(t, 1, i - 1)

-----------------------------------------------------------------------------

Unset == "unset"

VARIABLE options      \* key -> [text: value_as_string_, type: what value_ holds, or Unset]

ConfigInit == options = <<>>

\* try_emplace(): what is there stays.
try_emplace(key, option) ==
    options' = IF key \in DOMAIN options THEN options
               ELSE options @@ (key :> option)

\* insert_if_absent() of a string, or of a value of some type, which has no string.
insert_if_absent(key, text) == try_emplace(to_lower(trim(key)), [text |-> text, type |-> Unset])
insert_value(key, T) == try_emplace(to_lower(trim(key)), [text |-> <<>>, type |-> T])

\* get<T>(): the entry is made first and stays without a value when the factory throws.
get_option(key, T, factory_throws) ==
    LET option == IF key \in DOMAIN options THEN options[key]
                  ELSE [text |-> <<>>, type |-> Unset]
    IN  options' = (key :> IF option.type = Unset /\ ~ factory_throws
                           THEN [option EXCEPT !.type = T]
                           ELSE option) @@ options

ConfigNext ==
    \/ \E k \in InsertedKeys, t \in Texts : insert_if_absent(k, t)
    \/ \E k \in InsertedKeys, T \in Types : insert_value(k, T)
    \/ \E k \in ReadKeys, T \in Types, throws \in BOOLEAN : get_option(k, T, throws)

-----------------------------------------------------------------------------
(* The format. *)

MAGIC == 0
CRC32_SIZE == 1
HeaderSize(count) == 2 + 2 * count
crc32_compute(data) == upper + FoldLeft(LAMBDA crc, c : 4 * crc + c, 1, data)

\* Keys in order, each followed by its text.
Sorted(o) == SetToSortSeq(DOMAIN o, Precedes)
Data(o) ==
    FlattenSeq([i \in DOMAIN Sorted(o) |-> Sorted(o)[i] \o o[Sorted(o)[i]].text])

Serializable(o) ==
    /\ Cardinality(DOMAIN o) <= MAX_OPTIONS
    /\ \A k \in DOMAIN o : /\ Len(k) <= MAX_KEY_LEN
                           /\ o[k].type = Unset
                           /\ Len(o[k].text) <= MAX_VALUE_LEN
    /\ HeaderSize(Cardinality(DOMAIN o)) + Len(Data(o)) + CRC32_SIZE <= MAX_TOTAL_SIZE

serialize(o) ==
    LET keys == Sorted(o)
        start(i) == HeaderSize(Len(keys)) + FoldLeft(LAMBDA sum, k : sum + Len(k) + Len(o[k].text),
                                                     0, SubSeq(keys, 1, i - 1))
        offsets == FlattenSeq([i \in DOMAIN keys |-> <<start(i), start(i) + Len(keys[i])>>])
    IN  <<MAGIC, Len(keys)>> \o offsets \o Data(o) \o <<crc32_compute(Data(o))>>

\* What deserialize() reads: offsets are counted from zero.
Count(b) == b[2]
KeyOffset(b, i) == b[1 + 2 * i]
ValueOffset(b, i) == b[2 + 2 * i]
DataLimit(b) == Len(b) - CRC32_SIZE
Slice(b, from, to) == SubSeq(b, from + 1, to)


NextKeyOffset(b, i) == IF i < Count(b) THEN KeyOffset(b, i + 1) ELSE DataLimit(b)

validate_crc(b) ==
    /\ Len(b) >= HeaderSize(Count(b)) + CRC32_SIZE
    /\ Last(b) = crc32_compute(Slice(b, HeaderSize(Count(b)), DataLimit(b)))

EntryIsValid(b, i) ==
    /\ KeyOffset(b, i) >= HeaderSize(Count(b))
    /\ KeyOffset(b, i) < ValueOffset(b, i)
    /\ ValueOffset(b, i) <= NextKeyOffset(b, i)
    /\ KeyOffset(b, i) < DataLimit(b) /\ ValueOffset(b, i) <= DataLimit(b)
    /\ ValueOffset(b, i) - KeyOffset(b, i) <= MAX_KEY_LEN
    /\ NextKeyOffset(b, i) - ValueOffset(b, i) <= MAX_VALUE_LEN

KeyOf(b, i) == Slice(b, KeyOffset(b, i), ValueOffset(b, i))
TextOf(b, i) == Slice(b, ValueOffset(b, i), NextKeyOffset(b, i))

\* The constructor at the end refuses keys that are the same in lower case.
deserialize_accepts(b) ==
    /\ Len(b) \in 2 .. MAX_TOTAL_SIZE /\ b[1] = MAGIC
    /\ Count(b) <= MAX_OPTIONS /\ HeaderSize(Count(b)) <= Len(b)
    /\ validate_crc(b)
    /\ \A i \in 1 .. Count(b) : EntryIsValid(b, i)
    /\ \A i, j \in 1 .. Count(b) :
          to_lower(trim(KeyOf(b, i))) = to_lower(trim(KeyOf(b, j))) => KeyOf(b, i) = KeyOf(b, j)

deserialize(b) ==
    {<<to_lower(trim(KeyOf(b, i))), TextOf(b, i)>> : i \in 1 .. Count(b)}

\* What can happen to a buffer on its way: it is cut off, or a character is another one.
Damaged(b) ==
    {SubSeq(b, 1, n) : n \in 2 .. Len(b) - 1}
    \cup {[b EXCEPT ![i] = c] : i \in HeaderSize(Count(b)) + 1 .. DataLimit(b), c \in {blank, lower, upper}}

(***************************************************************************)
(* Whatever was inserted and read before: options that serialize() takes,  *)
(* deserialize() takes, too, and makes the same options of them, except    *)
(* that it refuses the empty key; and it refuses a buffer that was cut off *)
(* or whose data was changed.  What serialize() takes is what its code     *)
(* takes: an option whose factory has thrown in get() is still a string.   *)
(***************************************************************************)
OptionsTravelSafely ==
    Serializable(options) =>
        LET b == serialize(options)
        IN  /\ deserialize_accepts(b) <=> <<>> \notin DOMAIN options
            /\ deserialize_accepts(b) =>
                  deserialize(b) = {<<k, options[k].text>> : k \in DOMAIN options}
            /\ \A d \in Damaged(b) \ {b} : ~ deserialize_accepts(d)
=============================================================================
