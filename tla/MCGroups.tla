------------------------------ MODULE MCGroups ------------------------------
EXTENDS Integers, Groups, TLC
\* Code points of one and of two bytes; "@" is one of them.
MCAt == <<1>>
a == <<2>>
e == <<3, 4>>
MCCodePoint == {MCAt, a, e}
MCContinue == {4}
MCSpelled == "" :> <<>> @@ "x" :> <<a>> @@ "y" :> <<a, e>> @@ "all" :> <<e>>
\* Texts in which a surface occurs once, twice, within another, or not at all.
Texts == {<<>>, <<a, e>>, <<MCAt, a>>, <<e, MCAt, a, e>>, <<MCAt, e, MCAt, a>>,
          <<MCAt, MCAt, e, a>>, <<e, a, MCAt, a, e, MCAt, a>>}
Raws == [surface : {None, "", "x", "y"}, role : {None}, target : {<<"all">>},
         range : {None, <<0, 2>>, <<-1, 9>>, <<1, 1>>}]
        \cup [surface : {"x"}, role : {None, "", "cc", "other"},
              target : {<<"all">>, <<"human", "d">>, <<"cc", "did", "d">>, <<"agent", "">>},
              range : {None}]
        \cup [surface : {"all", "x"}, role : {None},
              target : {<<>>, <<"group_selector", "all">>, <<"did">>}, range : {None}]
Both == [surface : {"x", "y", "all"}, role : {None}, target : {<<"all">>}, range : {None}]
Plain == [text |-> <<a>>, payload |-> None, raws |-> <<>>]
Drafts == [text : Texts, payload : {None, <<>>, <<a>>}, raws : {<<>>}]
          \cup [text : Texts, payload : {None}, raws : {<<r>> : r \in Raws} \cup {<<r, q>> : r, q \in Both}]
\* Group commands two at a time or one at a time, and sends with each draft.
MCScenario ==
  {[commands |-> {"create", "add"}, handles |-> TRUE, alone |-> TRUE, versions |-> 2,
    draft |-> Plain],
   [commands |-> {"create", "info", "join", "leave"}, handles |-> FALSE,
    alone |-> FALSE, versions |-> 3, draft |-> Plain],
   [commands |-> {"create", "info", "add"}, handles |-> FALSE,
    alone |-> FALSE, versions |-> 3, draft |-> Plain],
   [commands |-> {"create", "info", "remove"}, handles |-> FALSE,
    alone |-> FALSE, versions |-> 3, draft |-> Plain],
   [commands |-> {"create", "add", "remove"}, handles |-> FALSE,
    alone |-> TRUE, versions |-> 3, draft |-> Plain],
   [commands |-> {"create", "info", "update"}, handles |-> FALSE,
    alone |-> FALSE, versions |-> 3, draft |-> Plain],
   [commands |-> {"create", "info", "policy"}, handles |-> FALSE,
    alone |-> FALSE, versions |-> 3, draft |-> Plain],
   [commands |-> {"create", "update", "policy"}, handles |-> FALSE,
    alone |-> TRUE, versions |-> 3, draft |-> Plain]}
  \cup [commands : {{"create", "send"}}, handles : {FALSE}, alone : {TRUE}, versions : {2},
        draft : Drafts]

Symmetry == Permutations(Proc) \cup Permutations(Name) \cup Permutations(Gen)
            \cup Permutations(Key)
=============================================================================
