---------------------------- MODULE AjaxConvert -----------------------------
(***************************************************************************)
(* The conversions of an answer by jQuery.ajax: the list of data types     *)
(* that a request expects, what the answer makes of it, and the converters *)
(* that lead from one type of the list to the next.                        *)
(*                                                                         *)
(* A converter is a record, `same' for one that changes nothing; the       *)
(* converters of a request are a sequence, in the order in which they were *)
(* given.                                                                  *)
(***************************************************************************)
EXTENDS Naturals, Sequences, SequencesExt, FiniteSets, FiniteSetsExt

Converter(from, to, same) == [from |-> from, to |-> to, same |-> same]

(* Those of jQuery.ajaxSettings and of the script data type.               *)
Converters ==
  <<Converter("*", "text", FALSE), Converter("text", "html", TRUE),
    Converter("text", "json", FALSE), Converter("text", "xml", FALSE),
    Converter("text", "script", FALSE)>>

(* The one that a JSONP request adds.                                      *)
ScriptJson == Converter("script", "json", FALSE)

Types == {c.to : c \in ToSet(Converters)}
Contents == {"xml", "html", "json", "script"}  \* that a content type tells

Known(cs, from, to) == {i \in DOMAIN cs : cs[i].from = from /\ cs[i].to = to}

-----------------------------------------------------------------------------
NoAuto(types) ==
  LET given == {i \in DOMAIN types : types[i] # "*"}
  IN  SubSeq(types, Min(given \cup {Len(types) + 1}), Len(types))

(* ajaxHandleResponses(): the content type counts when any type will do;   *)
(* the type of the response to use is put in front.                        *)
HandleResponses(cs, types, contentType, responses) ==
  LET expected == (IF Head(types) = "*" /\ contentType \in Contents
                   THEN <<contentType>> ELSE <<>>) \o NoAuto(types)
      fits(i) == \/ expected = <<>>
                 \/ Known(cs, responses[i], expected[1]) # {}
      fitting == {i \in DOMAIN responses : fits(i)}
      final == responses[IF fitting # {} THEN Min(fitting) ELSE 1]
      there == expected # <<>> /\ Contains(responses, expected[1])
  IN  IF responses = <<>> \/ there
      THEN expected
      ELSE <<final>> \o expected

(* The converter from one type to another: its own, or one for all.        *)
Direct(cs, from, to) ==
  LET own == Known(cs, from, to)
      all == Known(cs, "*", to)
  IN  IF own # {} THEN Max(own) ELSE IF all # {} THEN Max(all) ELSE 0

(* The first converter to a type whose source can be had.                  *)
Second(cs, from, to) ==
  LET usable == {i \in DOMAIN cs :
                   cs[i].to = to /\ Direct(cs, from, cs[i].from) # 0}
  IN  IF usable = {} THEN 0 ELSE Min(usable)

(* Mutant of Steps: the type in between is not put into the list.          *)
StepsOver(cs, from, to) ==
  LET one == Direct(cs, from, to)
      two == Second(cs, from, to)
  IN  IF from = to THEN <<>>
      ELSE IF one # 0 THEN <<one>> ELSE <<two>>

(* ajaxConvert(): what is called to get from a type of the list to the     *)
(* next, 0 for nothing, which is an exception: a converter, or two with a  *)
(* type in between, of which one that changes nothing is left out.         *)
Steps(cs, from, to) ==
  LET one == Direct(cs, from, to)
      two == Second(cs, from, to)
      first == IF two = 0 THEN 0 ELSE Direct(cs, from, cs[two].from)
  IN  IF from = to THEN <<>>
      ELSE IF one # 0 THEN <<one>>
      ELSE IF two = 0 THEN <<0>>
      ELSE IF cs[first].same THEN <<two>>
      ELSE IF cs[two].same THEN <<first>>
      ELSE <<first, two>>

(* All that is called; converters that change nothing are not.             *)
Conversion(cs, types) ==
  LET real == SelectSeq(types, LAMBDA t : t # "*")
      all == FlattenSeq([i \in 1 .. Len(real) - 1 |->
                           Steps(cs, real[i], real[i + 1])])
  IN  SelectSeq(all, LAMBDA i : i = 0 \/ ~cs[i].same)

-----------------------------------------------------------------------------
(* What one type can be taken for, and what can be made of it at all.      *)
Same(cs, from, to) ==
  \/ from = to
  \/ \E i \in DOMAIN cs : cs[i].same /\ {cs[i].from, cs[i].to} = {from, to}

Makes(cs, from, n) ==
  LET makes[k \in 0 .. n] ==
        IF k = 0 THEN {from}
        ELSE makes[k - 1]
             \cup {cs[i].to : i \in {j \in DOMAIN cs :
                                     cs[j].from \in makes[k - 1] \cup {"*"}}}
  IN  makes[n]

(* A list of types and an answer: each converter is given what it is made  *)
(* for, the last one makes what was expected, and a converter is missing   *)
(* only when no chain of converters, however long, would do.               *)
ConversionFits(cs, types, contentType, responses) ==
  LET list == HandleResponses(cs, types, contentType, responses)
      real == SelectSeq(list, LAMBDA t : t # "*")
      called == Conversion(cs, list)
      made(i) == IF i = 0 THEN real[1] ELSE cs[called[i]].to
  IN  real # <<>> =>
        IF Contains(called, 0)
        THEN \E i \in 1 .. Len(real) - 1 :
               real[i + 1] \notin Makes(cs, real[i], Len(cs))
        ELSE /\ \A i \in DOMAIN called :
                  \/ cs[called[i]].from = "*"
                  \/ Same(cs, made(i - 1), cs[called[i]].from)
             /\ Same(cs, made(Len(called)), Last(real))

(* All lists of up to three types.                                         *)
Lists == BoundedSeq(Types \cup {"*"}, 3) \ {<<>>}
=============================================================================
