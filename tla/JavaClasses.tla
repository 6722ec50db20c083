----------------------------- MODULE JavaClasses -----------------------------
(***************************************************************************)
(* From the body of a Java class to what the index holds of it: the member *)
(* loop of pkg/syntax/java/analysis.go, the copy pkg/syntax/java/parser.go *)
(* makes of its result, the getters of pkg/plugin/java and the references  *)
(* of pkg/engine.                                                          *)
(* The body is the sequence of its members, each of them with the          *)
(* annotations written before it.  The parser keeps annotations in Go      *)
(* slices, so they are modelled as slices: a window [array, len] on a      *)
(* backing array of the heap that other slices may look at too.            *)
(***************************************************************************)
EXTENDS Naturals, Sequences, SequencesExt

CONSTANTS
  Annotations,   \* the names of annotations
  Getter,        \* "Getter" or "lombok.Getter"
  UpperFirst(_)  \* the name of a field with a capital first letter

ASSUME GetterAssumption == Getter \in Annotations

(* A class body, as a sequence of members. *)
IsBody(body) ==
  body \in Seq(ToSet(body)) /\ \A i \in DOMAIN body : body[i].annotations \in Seq(Annotations)

Unset == "unset"                   \* the contents of an unused array element
Cap(heap, s) == Len(heap[s.array])
Contents(heap, s) == SubSeq(heap[s.array], 1, s.len)

(* append(pendingAnnotations, annotation): in place while there is room,   *)
(* else into a new array of twice the size.                                *)
AppendAnnotation(p, annotation) ==
  LET s == p.pending
      room == Cap(p.heap, s)
      larger == Contents(p.heap, s) \o <<annotation>>
                  \o [i \in 1..(IF room = 0 THEN 0 ELSE room - 1) |-> Unset]
  IN IF s.len < room
     THEN [p EXCEPT !.heap[s.array][s.len + 1] = annotation, !.pending.len = s.len + 1]
     ELSE [p EXCEPT !.heap = Append(@, larger),
                    !.pending = [array |-> Len(p.heap) + 1, len |-> s.len + 1]]

(* Mutant of EndMember: the members come out in reverse. *)
EndMemberReversed(p, m) ==
  [p EXCEPT !.fields = IF m.kind = "field" THEN <<[name |-> m.name, annotations |-> p.pending]>> \o @ ELSE @,
            !.methods = IF m.kind = "method" THEN <<m.name>> \o @ ELSE @,
            !.pending.len = 0]

(* The end of a member, "{" or ";": a field takes the pending slice, which *)
(* is then cut to length 0 over the same array.  A nested type is not a    *)
(* member; what a method does with its annotations is left out.            *)
EndMember(p, m) ==
  [p EXCEPT !.fields = IF m.kind = "field" THEN Append(@, [name |-> m.name, annotations |-> p.pending]) ELSE @,
            !.methods = IF m.kind = "method" THEN Append(@, m.name) ELSE @,
            !.pending.len = 0]

ParseMember(p, m) ==
  LET after[k \in 0..Len(m.annotations)] ==
        IF k = 0 THEN p ELSE AppendAnnotation(after[k - 1], m.annotations[k])
  IN EndMember(after[Len(m.annotations)], m)

NothingParsed ==
  [heap |-> << <<>> >>, pending |-> [array |-> 1, len |-> 0], fields |-> <<>>, methods |-> <<>>]

ParseTypeBody(body) ==
  LET after[k \in 0..Len(body)] ==
        IF k = 0 THEN NothingParsed ELSE ParseMember(after[k - 1], body[k])
  IN after[Len(body)]

(* The annotations are read from the heap, and copied, after the whole     *)
(* body has been parsed.                                                   *)
Parse(body) ==
  LET p == ParseTypeBody(body)
  IN [fields  |-> [i \in DOMAIN p.fields |->
                     [name |-> p.fields[i].name, annotations |-> Contents(p.heap, p.fields[i].annotations)]],
      methods |-> p.methods]

(* Two fields, name and Name, can have one getter. *)
GetterName(field) == <<"get", UpperFirst(field)>>

(* Mutants of Generate: declared methods are not looked at; only the first *)
(* annotation is.                                                          *)
GenerateRegardless(class, methods, field) ==
  IF Contains(field.annotations, Getter) /\ ~Contains(methods, GetterName(field.name))
  THEN Append(methods, GetterName(field.name))
  ELSE methods

GenerateFromFirst(class, methods, field) ==
  IF /\ field.annotations # <<>> /\ Head(field.annotations) = Getter
     /\ ~Contains(class.methods \o methods, GetterName(field.name))
  THEN Append(methods, GetterName(field.name))
  ELSE methods

(* A getter for an annotated field, unless a method of that name is        *)
(* declared or already generated.                                          *)
Generate(class, methods, field) ==
  IF /\ Contains(field.annotations, Getter)
     /\ ~Contains(class.methods \o methods, GetterName(field.name))
  THEN Append(methods, GetterName(field.name))
  ELSE methods

(* Plugin.GeneratedMethods *)
GeneratedMethods(class) ==
  LET after[k \in 0..Len(class.fields)] ==
        IF k = 0 THEN <<>> ELSE Generate(class, after[k - 1], class.fields[k])
  IN after[Len(class.fields)]

(* What Analyze puts into the snapshot for one class. *)
ClassSnapshot(body) ==
  [fields    |-> [i \in DOMAIN Parse(body).fields |-> Parse(body).fields[i].name],
   methods   |-> Parse(body).methods,
   generated |-> GeneratedMethods(Parse(body))]

(* collectReferences, each reference being the key both stores give it. *)
References(class, snapshot) ==
  {[class |-> class, kind |-> "field-type", member |-> f] : f \in ToSet(snapshot.fields)}
    \union {[class |-> class, kind |-> "method-return", member |-> m] : m \in ToSet(snapshot.methods)}
    \union {[class |-> class, kind |-> "generated-method-return", member |-> m] :
              m \in ToSet(snapshot.generated)}
==============================================================================
