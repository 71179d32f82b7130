----------------------------- MODULE Formatting -----------------------------
(***************************************************************************)
(* Coloured text (text/formatting.py).  A text is a sequence of symbols:   *)
(* "<", ">", "/", the names of tags, and others.  Of a result, an item     *)
(* [code] is a code of Minecraft, an item [symbol] a symbol of the text.   *)
(***************************************************************************)
EXTENDS Integers, Sequences, SequencesExt, FiniteSetsExt

\* _TAG_MAP has red and bold, of the names in a text.
TagNames == {"red", "bold"}

RESET == "reset"
Code(c) == [code |-> c]
IsCode(item) == "code" \in DOMAIN item
Literal(s) == [i \in DOMAIN s |-> [symbol |-> s[i]]]

\* str.find from i on; Absent is -1.
Absent == 0
Find(s, symbol, i) ==
    LET places == {j \in i..Len(s) : s[j] = symbol} IN IF places = {} THEN Absent ELSE Min(places)

\* Between "<" and ">" is the name of a tag, or "/" and a name; what is neither is literal.
TakeTag(a, s, end) ==
    LET tag == SubSeq(s, a.at + 1, end - 1)
        closing == tag # <<>> /\ Head(tag) = "/"
        name == IF closing THEN Tail(tag) ELSE tag
        next == [a EXCEPT !.at = end + 1]
    IN IF Len(name) # 1 \/ name[1] \notin TagNames
       THEN [next EXCEPT !.result = @ \o Literal(SubSeq(s, a.at, end))]
       ELSE IF closing THEN [next EXCEPT !.stack = RemoveFirst(@, name[1])]
       ELSE [next EXCEPT !.stack = Append(@, name[1])]

\* Text up to the next "<" gets the codes of the open tags before it, and a reset after it.
TakeText(a, s) ==
    LET next == Find(s, "<", a.at)
        end == IF next = Absent THEN Len(s) + 1 ELSE next
    IN [a EXCEPT !.at = end,
                 !.result = @ \o [i \in DOMAIN a.stack |-> Code(a.stack[i])] \o Literal(SubSeq(s, a.at, end - 1))
                              \o (IF a.stack = <<>> THEN <<>> ELSE <<Code(RESET)>>)]

\* colourf, a step of its loop at a time; a "<" that nothing closes is literal.
Colourf(s) ==
    LET After[i \in 0..Len(s)] ==
            IF i = 0 THEN [at |-> 1, result |-> <<Code(RESET)>>, stack |-> <<>>]
            ELSE LET a == After[i - 1] IN
                 IF a.at > Len(s) THEN a
                 ELSE IF s[a.at] # "<" THEN TakeText(a, s)
                 ELSE IF Find(s, ">", a.at) # Absent THEN TakeTag(a, s, Find(s, ">", a.at))
                 ELSE [a EXCEPT !.at = @ + 1, !.result = @ \o Literal(<<"<">>)]
    IN After[Len(s)].result

\* clean
Clean(result) == SelectSeq(result, LAMBDA item : ~IsCode(item))
=============================================================================
