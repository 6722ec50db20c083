----------------------------- MODULE MCIndexStore -----------------------------
EXTENDS IndexStore

CONSTANTS f1, f2, x, y, upperX

MCFiles == <<f1, f2>>

MCUpperFirst(field) == IF field = x THEN upperX ELSE field

Member(kind, name, annotations) == [kind |-> kind, name |-> name, annotations |-> annotations]

Members ==
  {Member("field", x, a) : a \in {<<>>, <<"Getter">>, <<"Other">>, <<"Other", "Getter">>}}
    \union {Member("field", y, a) : a \in {<<>>, <<"Getter">>, <<"Other">>}}
    \union {Member("field", upperX, <<"Getter">>)}
    \union {Member("method", GetterName(x), a) : a \in {<<>>, <<"Other">>}}
    \union {Member("nested", <<"type">>, <<"Getter">>)}

(* Up to two members of distinct names, and three fields whose annotations *)
(* outgrow one array and share the next.                                   *)
MCBodies ==
  {<<>>} \union {<<m>> : m \in Members}
    \union {p \in Members \X Members : p[1].name # p[2].name}
    \union {<<Member("field", x, <<"Getter">>), Member("field", y, <<"Other", "Getter">>),
              Member("field", <<x, y>>, <<"Getter">>)>>}
==============================================================================
