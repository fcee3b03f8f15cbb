---------------------------- MODULE StringBuffer -----------------------------
(***************************************************************************)
(* The functions of at_string.c on one at_string_t, as operators: the      *)
(* string users of the project (AtString, XmlParser) share them.           *)
(*                                                                         *)
(* A buffer maps the offsets 0..capcity-1 to bytes.  A write behind the    *)
(* allocated memory shows as an offset outside that range.                 *)
(*                                                                         *)
(* An operator that stands directly before a definition and that nothing   *)
(* uses is a mutant of that definition.                                    *)
(***************************************************************************)
EXTENDS Integers, Sequences

CONSTANTS Junk     \* a byte that malloc or realloc delivered and no one wrote

BUFFER_INCREASE_RATIO == 2

\* Bytes p, written into buffer b from offset i on.
Written(b, i, p) ==
    [j \in DOMAIN b \cup i..i + Len(p) - 1 |->
        IF j \in i..i + Len(p) - 1 THEN p[j - i + 1] ELSE b[j]]

string_blank(capcity) ==
    [buffer |-> [i \in 0..capcity - 1 |-> 0], size |-> 0, capcity |-> capcity]

\* string_new of the C string with the bytes ori.
string_new(ori) ==
    [buffer |-> Written(string_blank(Len(ori) + 1).buffer, 0, ori),
     size |-> Len(ori), capcity |-> Len(ori) + 1]

ClearedEarly(str, new_cap) == str.size - 1..new_cap - 1

\* The bytes that expand_buffer clears: as many as it adds, from size on, and
\* not those it adds.
Cleared(str, new_cap) == str.size..str.size + (new_cap - str.capcity) - 1

expand_buffer(str, new_cap) ==
    [str EXCEPT !.capcity = new_cap,
                !.buffer = [i \in 0..new_cap - 1 |->
                                IF i \in Cleared(str, new_cap) THEN 0
                                ELSE IF i < str.capcity THEN str.buffer[i]
                                ELSE Junk]]

\* The capacity string_append asks for when n bytes and a zero do not fit.
Enough(str, n) ==
    LET twice == BUFFER_INCREASE_RATIO * str.capcity
    IN IF str.size + n + 1 > twice THEN str.size + n + 1 ELSE twice

RoomNoZero(str, n) ==
    IF str.size + n > str.capcity
    THEN expand_buffer(str, Enough(str, n)) ELSE str

Room(str, n) ==
    IF str.size + n + 1 > str.capcity
    THEN expand_buffer(str, Enough(str, n)) ELSE str

string_append(str, p) ==
    [Room(str, Len(p)) EXCEPT !.buffer = Written(@, str.size, p),
                              !.size = @ + Len(p)]

RoomOne(str) ==
    IF str.size + 2 > str.capcity
    THEN expand_buffer(str, BUFFER_INCREASE_RATIO * str.capcity) ELSE str

string_appendch(str, ch) ==
    [RoomOne(str) EXCEPT !.buffer = Written(@, str.size, <<ch>>),
                         !.size = @ + 1]

string_reset(str) ==
    [str EXCEPT !.buffer = Written(@, 0, [i \in 1..str.size |-> 0]),
                !.size = 0]

\* The bytes in use.
Bytes(str) == [i \in 1..str.size |-> str.buffer[i - 1]]

\* string_cstr is the text of the string: a zero follows the bytes in use.
Terminated(str) == str.size \in DOMAIN str.buffer /\ str.buffer[str.size] = 0
=============================================================================
