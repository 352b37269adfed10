------------------------------ MODULE ClientLibrary ------------------------------
(***************************************************************************)
(* What the C client library makes of the answers of the daemon.  The      *)
(* Node client parses an answer (ms2_client.js); the C client looks for a  *)
(* key in its text and takes what follows (ms2_client.c).  The daemon      *)
(* builds the answers (rpc_server.c) from values that change.              *)
(*                                                                         *)
(* A text is a sequence of tokens: keys, strings, numbers and brackets.    *)
(***************************************************************************)
EXTENDS Naturals, Sequences, SequencesExt

CONSTANTS
  Known,     (* the names of the fields, in their order                    *)
  Unknown,   (* a name that is none                                        *)
  Values,    (* what a field may be                                        *)
  Signature

VARIABLES
  value,         (* what each field is now                                 *)
  linked,        (* serial_fd >= 0                                         *)
  method, names, (* the call under way                                     *)
  text,          (* the answer to it                                       *)
  was            (* history: value and linked when it was answered         *)

vars == <<value, linked, method, names, text, was>>

Init == /\ value = [f \in Range(Known) |-> "0"] /\ linked = TRUE
        /\ method = "none" /\ names = << >> /\ text = << >>
        /\ was = [value |-> value, linked |-> linked]

Key(k) == <<"key", k>>
Str(s) == <<"string", s>>
Num(v) == <<"number", v>>
Mark(m) == <<"mark", m>>
Object(body) == <<Mark("{")>> \o body \o <<Mark("}")>>
List(body)   == <<Mark("[")>> \o body \o <<Mark("]")>>

------------------------------------------------------------------------------
(* The daemon.                                                             *)

Error == <<Key("error")>> \o Object(<<Key("code"), Num("-32602"), Key("message"),
                                      Str("Invalid params")>>)

(* A faulty variant: the number is made a string.                          *)
QuotedField(f) == <<Key("name"), Str(f), Key("value"), Str(value[f]), Key("units"), Str("u")>>

Field(f) == <<Key("name"), Str(f), Key("value"), Num(value[f]), Key("units"), Str("u")>>

(* An unknown name makes the call fail.                                    *)
Result ==
  CASE method = "get_value"   -> Object(Field(names[1]))
    [] method = "get_values"  ->
         Object(<<Key("values")>> \o List(FlattenSeq([i \in DOMAIN names |-> Object(Field(names[i]))]))
                \o <<Key("last_poll_timestamp_ms"), Num("1")>>)
    [] method = "list_fields" -> List([i \in DOMAIN Known |-> Str(Known[i])])
    [] method = "get_status"  -> Object(<<Key("connected"),
                                          <<"flag", IF linked THEN "true" ELSE "false">>,
                                          Key("signature"), Str(Signature)>>)

Answer == /\ method # "none" /\ text = << >>
          /\ text' = IF Range(names) \subseteq Range(Known) THEN <<Key("result")>> \o Result
                                                            ELSE Error
          /\ was' = [value |-> value, linked |-> linked]
          /\ UNCHANGED <<value, linked, method, names>>

Poll == /\ value' \in [Range(Known) -> Values]
        /\ linked' \in BOOLEAN
        /\ UNCHANGED <<method, names, text, was>>

------------------------------------------------------------------------------
(* The C client.                                                           *)

Call(m, ns) == /\ method' = m /\ names' = ns /\ text' = << >>
               /\ UNCHANGED <<value, linked, was>>

(* strstr: what follows the first token t.                                 *)
After(s, t) == SubSeq(s, 1 + SelectInSeq(s, LAMBDA x : x = t), Len(s))
Has(s, t)   == t \in Range(s)

(* extract_double and extract_string: no key and no number are 0, and no   *)
(* string is empty.                                                        *)
Extract(s, key, kind, none) ==
  IF Has(s, Key(key)) /\ After(s, Key(key))[1][1] = kind THEN After(s, Key(key))[1][2] ELSE none

GetValue == Extract(text, "value", "number", "0")

(* ms2_get_values: the numbers that follow each other in the list of       *)
(* values, or -1 where something else stands.                              *)
GetValues ==
  LET list == After(text, Key("values"))
      s    == After(list, Mark("["))
      stop == SelectInSeq(s, LAMBDA x : x[1] # "number")
  IN IF Has(text, Key("values")) /\ (stop > Len(names) \/ s[stop] = Mark("]"))
       THEN [status |-> "0", values |-> SubSeq(s, 1, IF stop > Len(names) THEN Len(names) ELSE stop - 1)]
       ELSE [status |-> "-1", values |-> << >>]

(* ms2_list_fields: the strings from the first bracket to its end.         *)
ListFields ==
  LET s == After(After(text, Key("result")), Mark("["))
  IN IF Has(text, Key("result"))
       THEN SelectSeq(SubSeq(s, 1, SelectInSeq(s, LAMBDA x : x = Mark("]"))),
                      LAMBDA x : x[1] = "string")
       ELSE << >>

GetStatus == <<Extract(text, "connected", "flag", "0"), Extract(text, "signature", "string", "")>>

Client == /\ method = "none" \/ text # << >>
          /\ \/ \E f \in Range(Known) \cup {Unknown} : Call("get_value", <<f>>)
             \/ \E f, g \in Range(Known) \cup {Unknown} : Call("get_values", <<f, g>>)
             \/ Call("list_fields", << >>)
             \/ Call("get_status", << >>)

Next == Answer \/ Poll \/ Client

Spec == Init /\ [][Next]_vars

------------------------------------------------------------------------------
Answered(m) == method = m /\ text # << >>

(* What the text search of the C client finds is what the daemon has put   *)
(* in: the value of the one field that was asked for and not that of       *)
(* another key or time, 0 for an unknown one, all names in their order,    *)
(* and the state of the link (ms2_client.h).                               *)
FindsTheAnswer ==
  /\ Answered("get_value") =>
       GetValue = IF names[1] = Unknown THEN "0" ELSE was.value[names[1]]
  /\ Answered("list_fields") => ListFields = [i \in DOMAIN Known |-> Str(Known[i])]
  /\ Answered("get_status") =>
       GetStatus = <<IF was.linked THEN "true" ELSE "false", Signature>>

(* The client library says -1, and no values, to every answer to           *)
(* get_values, those of known fields included: the daemon puts objects     *)
(* where the client looks for numbers.  At least it takes no number for    *)
(* the value of a field that it is not the value of (ms2_get_values, which *)
(* ms2_client.h:48 documents as "0 on success").                           *)
RefusesLists == Answered("get_values") => GetValues = [status |-> "-1", values |-> << >>]
===============================================================================
