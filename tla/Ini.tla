--------------------------------- MODULE Ini ---------------------------------
(***************************************************************************)
(* ini_parse (src/src/ini.c) with the options of ini.h, and the look-ups   *)
(* of INIReader (src/src/INIReader.cc): which value a key has after a file *)
(* was read line by line.                                                  *)
(*                                                                         *)
(* A line is what rstrip, lskip and find_chars_or_comment leave of it: its *)
(* kind, whether it was indented, and its texts in lower case.  fgets cuts *)
(* a line of more than 199 characters: it is two lines here.               *)
(***************************************************************************)
EXTENDS Naturals, Sequences

CONSTANT strtol(_)      \* the numbers strtol reads at the head of a text: none or one

(* "blank" is an empty line or a comment; a line in brackets is a section; *)
(* a line with = or : is a pair, unless it is in brackets; anything else   *)
(* is junk.  All but blank lines can continue the previous value, with raw *)
(* as their text.                                                          *)
Line == [kind : {"blank", "section", "pair", "junk"}, indented : BOOLEAN,
         text : STRING, value : STRING, raw : STRING]

(* ValueHandler: the texts given for one key are joined with newlines;     *)
(* while the value is empty no newline is added.                           *)
ValueHandler(values, section, name, text) ==
    LET key == <<section, name>>
        old == IF key \in DOMAIN values THEN values[key] ELSE <<>>
        new == IF old = <<>> /\ text = "" THEN <<>> ELSE Append(old, text)
    IN [k \in DOMAIN values \cup {key} |-> IF k = key THEN new ELSE values[k]]

(* An indented line after a pair of the same section. *)
Continues(p, line) == p.prev_name # "" /\ line.indented

\* Mutant: a new section does not end the previous value.
SectionLineKeepsName(p, line) == [p EXCEPT !.section = line.text]

(* [section] *)
SectionLine(p, line) == [p EXCEPT !.section = line.text, !.prev_name = ""]

(* name = value *)
PairLine(p, line) ==
    [p EXCEPT !.prev_name = line.text,
              !.values = ValueHandler(@, p.section, line.text, line.value)]

(* One turn of ini_parse_stream's loop.  An error is remembered and does   *)
(* not end the loop (INI_STOP_ON_FIRST_ERROR is 0); nobody asks for it.    *)
ParseLine(p, line) ==
    IF line.kind = "blank" THEN p
    ELSE IF Continues(p, line)
    THEN [p EXCEPT !.values = ValueHandler(@, p.section, p.prev_name, line.raw)]
    ELSE IF line.kind = "section" THEN SectionLine(p, line)
    ELSE IF line.kind = "pair" THEN PairLine(p, line)
    ELSE p

(* What ini_parse_stream knows before the first line. *)
NothingParsed == [section |-> "", prev_name |-> "", values |-> [key \in {} |-> <<>>]]

-----------------------------------------------------------------------------
(* INIReader *)

(* The texts of a value, joined with newlines: a text of its own only when *)
(* there is one.                                                           *)
Get(values, section, name, default_value) ==
    IF <<section, name>> \in DOMAIN values THEN values[<<section, name>>] ELSE default_value

(* strtol stops at the newline: later texts for the key have no effect. *)
GetInteger(values, section, name, default_value) ==
    LET v == Get(values, section, name, <<>>)
    IN IF v # <<>> /\ strtol(v[1]) # {} THEN CHOOSE n \in strtol(v[1]) : TRUE
       ELSE default_value

(* A value of several texts is neither true nor false. *)
GetBoolean(values, section, name, default_value) ==
    LET v == Get(values, section, name, <<>>)
    IN CASE v \in {<<"true">>, <<"yes">>, <<"on">>, <<"1">>} -> TRUE
         [] v \in {<<"false">>, <<"no">>, <<"off">>, <<"0">>} -> FALSE
         [] OTHER -> default_value

(* A section without a pair does not exist. *)
HasSection(values, section) == \E key \in DOMAIN values : key[1] = section

-----------------------------------------------------------------------------
(* The values a reader of the file would expect, without the parser's      *)
(* state: for the properties of the modules that read a file.              *)

(* A header at the margin. *)
Header(file, i) == file[i].kind = "section" /\ ~file[i].indented

(* Line i belongs to the value of the pair above it: it is indented, and   *)
(* no header at the margin separates it from an earlier pair.              *)
Belongs(file, i) ==
    /\ file[i].indented /\ file[i].kind # "blank"
    /\ \E j \in 1 .. i - 1 : /\ file[j].kind = "pair"
                            /\ \A k \in j + 1 .. i - 1 : ~Header(file, k)

(* The last line before i that is of a kind and stands for itself, or 0. *)
LastBefore(file, i, kind) ==
    LET js == {j \in 1 .. i - 1 : file[j].kind = kind /\ ~Belongs(file, j)}
    IN IF js = {} THEN 0 ELSE CHOOSE j \in js : \A k \in js : k <= j

(* The section line i is in. *)
SectionAt(file, i) ==
    LET h == LastBefore(file, i, "section") IN IF h = 0 THEN "" ELSE file[h].text

(* The texts the file gives for a key, in order; the empty ones at the     *)
(* head say nothing.                                                       *)
Written(file, section, name) ==
    LET Own(i) == file[i].kind = "pair" /\ ~Belongs(file, i)
        is == SelectSeq([i \in 1 .. Len(file) |-> i],
                LAMBDA i : /\ SectionAt(file, i) = section
                           /\ \/ Own(i) /\ file[i].text = name
                              \/ Belongs(file, i) /\ file[LastBefore(file, i, "pair")].text = name)
        texts == [k \in 1 .. Len(is) |-> IF Own(is[k]) THEN file[is[k]].value ELSE file[is[k]].raw]
        said == {k \in 1 .. Len(is) : texts[k] # ""}
    IN IF said = {} THEN <<>>
       ELSE SubSeq(texts, CHOOSE k \in said : \A l \in said : k <= l, Len(texts))
=============================================================================
