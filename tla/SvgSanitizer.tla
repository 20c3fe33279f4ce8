----------------------------- MODULE SvgSanitizer -----------------------------
(***************************************************************************)
(* The loop sanitize of the two renderer pages.  It walks a snapshot of    *)
(* the descendants of an svg element, in document order, and changes the   *)
(* live tree while it walks: a link gives way to its children, forbidden   *)
(* elements go with everything below them, other elements lose the         *)
(* attributes that would make the picture active.  The svg element itself  *)
(* is not among its descendants: the loop leaves its attributes alone.     *)
(*                                                                         *)
(* A drawing has nodes 1..n in document order below the svg element 0;     *)
(* parent gives the element each node was drawn in, attributes what each   *)
(* of them and the svg element carries.  Children are kept as sequences,   *)
(* because the order of the nodes is what the picture shows.               *)
(***************************************************************************)
EXTENDS Integers, FiniteSets, Sequences, SequencesExt, Selection

\* The kinds of nodes that the page or the host tells apart: links, forbidden
\* elements, style elements with external CSS ("importing") or with the CSS
\* of a file ("filing"); "text" is character data, which
\* querySelectorAll("*") does not return.
Kinds == {"plain", "link", "forbidden", "importing", "filing", "text"}

\* An attribute is named on..., href or xlink:href, something else that ends
\* in href, src, style, or otherwise.
AttributeNames == {"event", "href", "suffixedHref", "source", "style", "other"}

\* It says #..., #... after a space, @import, url() of another place, the same
\* in double quotes (which are no quotes any more once the attribute is
\* serialized), url() of a file, or none of these.
AttributeValues ==
  {"anchor", "paddedAnchor", "import", "remoteCSS", "quotedCSS", "fileCSS",
   "plain"}

Attributes == [name : AttributeNames, value : AttributeValues]

HasExternalCSS(value) == value \in {"import", "remoteCSS", "quotedCSS"}

Pages == {"mermaid", "mathjax"}

\* The elements a page removes with their subtree.
ForbiddenKinds(page) ==
  {"forbidden"} \cup (IF page = "mermaid" THEN {"importing"} ELSE {})

\* Mutant: attributes with a place in them are left alone.
ForbiddenEvents(page) == {a \in Attributes : a.name = "event"}

\* The attributes a page takes from the elements it keeps.  Only the Mermaid
\* page trims a value before it looks for the #.
ForbiddenAttributes(page) ==
  {a \in Attributes :
     \/ a.name = "event"
     \/ page = "mermaid" /\ a.name \in {"href", "source"}
          /\ a.value \notin {"anchor", "paddedAnchor"}
     \/ page = "mermaid" /\ a.name = "style" /\ HasExternalCSS(a.value)
     \/ page = "mathjax" /\ a.name = "href" /\ a.value # "anchor"}

\* What from is led to by any number of steps: the members of every set that
\* has those of from and is not left by a step.
Reached(from, steps) ==
  {i \in DOMAIN steps :
     \A S \in SUBSET DOMAIN steps :
       from \subseteq S /\ (\A j \in S : steps[j] \subseteq S) => i \in S}

\* The nodes above i in the drawing, i among them.
Lineage(drawing, i) ==
  LET above == [j \in 0..Len(drawing.parent) |->
                  IF j = 0 THEN {} ELSE {drawing.parent[j]}]
  IN Reached({i}, above) \ {0}

\* What a document can be: the nodes stand in document order, which is that
\* of their opening tags, and a text has neither children nor attributes.
IsDrawing(drawing) ==
  LET kind == drawing.kind
      parent == drawing.parent
  IN /\ kind \in Seq(Kinds) /\ parent \in Seq(Nat) /\ Len(kind) = Len(parent)
     /\ \A i \in DOMAIN parent :
          /\ parent[i] < i
          /\ parent[i] \in {0} \cup Lineage(drawing, i - 1)
          /\ parent[i] # 0 => kind[parent[i]] # "text"
     /\ drawing.attributes \in [0..Len(kind) -> SUBSET Attributes]
     /\ \A i \in DOMAIN kind : kind[i] = "text" => drawing.attributes[i] = {}

\* Some nodes of a drawing, in document order.
InOrder(drawing, nodes) == Selected([i \in 1..Len(drawing.kind) |-> i], nodes)

\* The live tree of a drawing before sanitize.
LiveTree(drawing) ==
  LET nodes == 1..Len(drawing.kind)
  IN [children |-> [p \in {0} \cup nodes |->
                      InOrder(drawing, {i \in nodes : drawing.parent[i] = p})],
      attributes |-> drawing.attributes]

HolderOf(tree, i) ==
  CHOOSE p \in DOMAIN tree.children : Contains(tree.children[p], i)

Position(s, i) == CHOOSE k \in DOMAIN s : s[k] = i

\* Mutant: the children of a link go to the end of its holder.
UnwrappedAtEnd(tree, i) ==
  LET p == HolderOf(tree, i)
      others == Selected(tree.children[p], DOMAIN tree.children \ {i})
      moved == others \o tree.children[i]
  IN [tree EXCEPT !.children = [@ EXCEPT ![p] = moved, ![i] = <<>>]]

\* element.replaceWith(...element.childNodes)
Unwrapped(tree, i) ==
  LET p == HolderOf(tree, i)
      s == tree.children[p]
      k == Position(s, i)
      spliced == SubSeq(s, 1, k - 1) \o tree.children[i]
                   \o SubSeq(s, k + 1, Len(s))
  IN [tree EXCEPT !.children = [@ EXCEPT ![p] = spliced, ![i] = <<>>]]

\* element.remove(): the element keeps its own subtree, out of the document.
Detached(tree, i) ==
  LET p == HolderOf(tree, i)
  IN [tree EXCEPT !.children[p] = Selected(@, DOMAIN tree.children \ {i})]

\* One turn of the loop.
Visited(page, drawing, tree, i) ==
  CASE drawing.kind[i] = "link" -> Unwrapped(tree, i)
    [] drawing.kind[i] \in ForbiddenKinds(page) -> Detached(tree, i)
    [] OTHER -> [tree EXCEPT !.attributes[i] = @ \ ForbiddenAttributes(page)]

\* The whole loop, over Array.from(svg.querySelectorAll("*")): the elements,
\* without the text between them, in document order.
Sanitized(page, drawing) ==
  LET after[n \in 0..Len(drawing.kind)] ==
        IF n = 0 THEN LiveTree(drawing)
        ELSE IF drawing.kind[n] = "text" THEN after[n - 1]
        ELSE Visited(page, drawing, after[n - 1], n)
  IN after[Len(drawing.kind)]

-----------------------------------------------------------------------------
(* What the loop promises, said without a loop.                            *)

\* The nodes the picture keeps: none inside a forbidden element, no links.
Kept(page, drawing) ==
  {i \in DOMAIN drawing.kind :
     /\ drawing.kind[i] # "link"
     /\ \A j \in Lineage(drawing, i) :
          drawing.kind[j] \notin ForbiddenKinds(page)}

\* The nearest element above i that is kept; 0 is the svg element.
Home(page, drawing, i) ==
  LET above == (Lineage(drawing, i) \ {i}) \cap Kept(page, drawing)
  IN IF above = {} THEN 0 ELSE CHOOSE j \in above : \A k \in above : k <= j

\* A tree keeps exactly the harmless part of what a drawing has below its svg
\* element, in its order.
IsCleanPictureOf(page, drawing, tree) ==
  LET kept == Kept(page, drawing)
  IN /\ \A p \in kept \cup {0} :
          tree.children[p] =
            InOrder(drawing, {i \in kept : Home(page, drawing, i) = p})
     /\ \A i \in kept :
          tree.attributes[i] =
            drawing.attributes[i] \ ForbiddenAttributes(page)

\* The nodes the host sees below the svg element of the serialized picture.
Shown(tree) ==
  Reached({0}, [p \in DOMAIN tree.children |-> ToSet(tree.children[p])]) \ {0}
=============================================================================
