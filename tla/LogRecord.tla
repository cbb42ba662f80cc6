----------------------------- MODULE LogRecord -----------------------------
(***************************************************************************)
(* What travels through the forwarder: texts and the serde_json values the *)
(* parsers build from them.                                                *)
(*                                                                         *)
(* A text is the sequence of its words, which single spaces separate; an   *)
(* empty text is the empty string, and trimming changes nothing.  What a   *)
(* regular expression or parse() says of a word is a constant of the       *)
(* module that asks.  A log is the function from its keys to their values. *)
(* A value is a string, a number (written as the word it was parsed from), *)
(* an array of strings or an object.  What is searched for strings holds   *)
(* no objects within objects.                                              *)
(***************************************************************************)
EXTENDS Integers, Sequences, SequencesExt, TLC

CONSTANTS
    KeyOrder,       \* all keys in the order of their bytes, that of serde_json's maps
    IntegerWords    \* words that parse as i64

None == [none |-> TRUE]

Str(text) == [string |-> text]
Num(word) == [number |-> word]
Arr(texts) == [array |-> texts]
Obj(members) == [object |-> members]

IsStr(value) == "string" \in DOMAIN value
IsObj(value) == "object" \in DOMAIN value

get(value, key) ==
    IF IsObj(value) /\ key \in DOMAIN value.object THEN value.object[key] ELSE None

insert(members, key, value) ==
    [k \in DOMAIN members \cup {key} |-> IF k = key THEN value ELSE members[k]]

\* All of the members are inserted into what is there.
extend(there, members) ==
    [k \in DOMAIN there \cup DOMAIN members |->
        IF k \in DOMAIN members THEN members[k] ELSE there[k]]

\* get(..).and_then(Value::as_str).unwrap_or("")
TextOf(value) == IF IsStr(value) THEN value.string ELSE <<>>

\* v.parse(): the word of a text that has no other, or a word nothing parses.
WordOf(text) == IF Len(text) = 1 THEN text[1] ELSE ""

KeysOf(members) == SelectSeq(KeyOrder, LAMBDA key : key \in DOMAIN members)

Leaves(value) ==
    IF IsStr(value) THEN <<value.string>>
    ELSE IF "array" \in DOMAIN value THEN value.array ELSE <<>>

LeavesOf(members) ==
    FlattenSeq([i \in DOMAIN KeysOf(members) |-> Leaves(members[KeysOf(members)[i]])])

\* Every string of a log, in the order of its keys; numbers are none.
collect_all_strings(log) ==
    LET keys == KeysOf(log)
    IN  FlattenSeq([i \in DOMAIN keys |->
                       IF IsObj(log[keys[i]]) THEN LeavesOf(log[keys[i]].object)
                       ELSE Leaves(log[keys[i]])])

WordsOf(value) == UNION {Range(text) : text \in Range(Leaves(value))}

\* The words of all strings, in no order.
WordsIn(log) ==
    UNION {IF IsObj(log[key])
           THEN UNION {WordsOf(log[key].object[k]) : k \in DOMAIN log[key].object}
           ELSE WordsOf(log[key]) : key \in DOMAIN log}
=============================================================================
