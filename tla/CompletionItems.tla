--------------------------- MODULE CompletionItems ---------------------------
(***************************************************************************)
(* The list textDocument/completion answers (internal/lsp/completion.go),  *)
(* once the receiver is resolved: which variables and methods are in it,   *)
(* their scores, the placeholders of a method's arguments, and the order.  *)
(* Fields and locals are Go maps, iterated in an order that differs from   *)
(* one request to the next: the definitions take the orders as arguments,  *)
(* sequences of the names.                                                 *)
(* A context is [text, line, target]: target is what the line before the   *)
(* position assigns to, [type, name], or NoTarget.                         *)
(***************************************************************************)
EXTENDS TypeNames

CONSTANTS
  NoTarget,
  Labels, Details,   \* the labels and the details there are, each in alphabetical order
  StartsWith(_, _),  \* a label and a prefix
  Related(_, _),     \* one of two variable names is contained in the other
  TargetScore(_, _)  \* 0, 20 or 40: how much of the target's name a method's name has

(* normalizeTypeForMatch *)
Normal(n) == IF n.package = "java.lang" THEN [n EXCEPT !.package = Empty] ELSE n

(* argumentMatchScore *)
ArgumentMatchScore(param, name, type) ==
  (IF Normal(param.type.written) = Normal(type.written) THEN 100 ELSE 0)
    + (IF name = param.name THEN 80 ELSE IF Related(name, param.name) THEN 30 ELSE 0)

(* bestArgumentPlaceholder: the first local of the highest score above 0,  *)
(* else the parameter's own name.                                          *)
BestArgumentPlaceholder(locals, order, param) ==
  LET Score(name) == ArgumentMatchScore(param, name, locals[name])
      Better(best, name) ==
        IF Score(name) > best.score THEN [name |-> name, score |-> Score(name)] ELSE best
  IN FoldLeft(Better, [name |-> param.name, score |-> 0], order).name

(* methodCompletionScore: what the method returns, what it is called, and  *)
(* whether it is generated.                                                *)
MethodCompletionScore(target, method) ==
  LET outer(type) == Normal(Head(type.names))
  IN (IF target = NoTarget THEN 0
      ELSE TargetScore(method.name, target.name)
             + (IF Normal(target.type.written) = Normal(method.returns.written) THEN 200
                ELSE IF outer(target.type) = outer(method.returns) THEN 120 ELSE 0))
       + (IF method.generated THEN 10 ELSE 0)

(* buildMethodCompletionItem *)
MethodItem(ctx, order, method) ==
  [label  |-> method.name, kind |-> "method",
   detail |-> MethodDetail(method),
   insert |-> [i \in DOMAIN method.params |->
                 BestArgumentPlaceholder(Locals(ctx.text, ctx.line), order, method.params[i])],
   score  |-> MethodCompletionScore(ctx.target, method)]

(* The detail of a variable is its type alone. *)
VariableDetail(type) == [type |-> type.written, params |-> NoTarget]
VariableItem(kind, name, type) ==
  [label |-> name, kind |-> kind, detail |-> VariableDetail(type), insert |-> <<>>, score |-> 0]

(* completionItemsForCurrentScope *)
ItemsForCurrentScope(ctx, prefix, fieldOrder, localOrder) ==
  LET fields == Fields(ctx.text)
      locals == Locals(ctx.text, ctx.line)
      methods == Methods(ctx.text, fieldOrder)
      items == [i \in DOMAIN fieldOrder |-> VariableItem("field", fieldOrder[i], fields[fieldOrder[i]])]
                 \o [i \in DOMAIN localOrder |-> VariableItem("local", localOrder[i], locals[localOrder[i]])]
                 \o [i \in DOMAIN methods |-> MethodItem(ctx, localOrder, methods[i])]
  IN Selected(items, {i \in DOMAIN items : StartsWith(items[i].label, prefix)})

(* completionItemsForType: the methods of the class, on a type only the    *)
(* static ones.  The fields are those of the class, the locals those of    *)
(* the requesting text.                                                    *)
ItemsForType(ctx, info, receiverKind, prefix, fieldOrder, localOrder) ==
  LET all == Methods(info, fieldOrder)
      Offered(m) == (receiverKind = "type" => m.static) /\ StartsWith(m.name, prefix)
      methods == Selected(all, {i \in DOMAIN all : Offered(all[i])})
  IN [i \in DOMAIN methods |-> MethodItem(ctx, localOrder, methods[i])]
------------------------------------------------------------------------------
(* The order of items: SortText is the score, highest first, and the       *)
(* label; then come label and detail.                                      *)
Rank(words, word) == CHOOSE i \in DOMAIN words : words[i] = word
ItemBefore(a, b) ==
  \/ a.score > b.score
  \/ /\ a.score = b.score
     /\ \/ Rank(Labels, a.label) < Rank(Labels, b.label)
        \/ a.label = b.label /\ Rank(Details, a.detail) < Rank(Details, b.detail)

ItemFirsts(items) == Firsts(items, LAMBDA item : <<item.label, item.detail>>)

(* Mutant of CompletionList: items of one score stay as they came. *)
CompletionListByScore(items) ==
  LET Before(i, j) == items[i].score > items[j].score \/ (items[i].score = items[j].score /\ i < j)
  IN Arranged(items, ItemFirsts(items), Before)

(* completionAtPosition: one item for a label and detail, sorted; the sort *)
(* is stable.                                                              *)
CompletionList(items) ==
  LET Before(i, j) ==
        ItemBefore(items[i], items[j]) \/ (~ItemBefore(items[j], items[i]) /\ i < j)
  IN Arranged(items, ItemFirsts(items), Before)
==============================================================================
