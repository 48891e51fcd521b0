------------------------------- MODULE MCBinding -------------------------------
(***************************************************************************)
(* Binding for TLC: a bundle with one locked and two mutable assets, an    *)
(* author who may start from a broken variant of it, and who reformats,    *)
(* repins, repoints, rewrites and deletes.                                 *)
(***************************************************************************)
EXTENDS Binding, TLC

Ref(name, path, content) ==
  [name |-> name, path |-> path, media |-> "text", sha256 |-> content]

(* A document with the identity of its content. *)
Renewed(doc) == [id |-> SnapshotID(doc)] @@ doc

Document(mutable) ==
  Renewed([system |-> "rag", dimensions |-> "small",
           locked |-> <<Ref("tool", "t", 1)>>, mutable |-> mutable])

MCBundle ==
  [suite |-> [means |-> 1, as |-> 1], policy |-> 1,
   manifest |-> [asset |-> "prompt", as |-> 1],
   parent |-> Document(<<Ref("prompt", "p", 1), Ref("index", "i", 1)>>),
   candidate |-> Document(<<Ref("prompt", "q", 2), Ref("index", "i", 1)>>),
   t |-> 1, p |-> 1, q |-> 2, i |-> 1]

(* Documents no candidate may have. *)
Broken(doc) ==
  {Renewed([doc EXCEPT !.locked = <<>>, !.mutable = doc.locked \o @]),
   Renewed([doc EXCEPT !.mutable = Append(@, doc.locked[1])]),
   Renewed([doc EXCEPT !.mutable = Append(@, @[1])]),
   Renewed([doc EXCEPT !.mutable = <<>>]),
   Renewed([doc EXCEPT !.mutable = Tail(@)]),
   Renewed([doc EXCEPT !.locked[1].path = "q", !.locked[1].sha256 = 2]),
   Renewed([doc EXCEPT !.dimensions = "large"]),
   Renewed([doc EXCEPT !.mutable[1].media = "json"]),
   Renewed([doc EXCEPT !.mutable[2].path = "q", !.mutable[2].sha256 = 2]),
   Renewed([doc EXCEPT !.mutable[2].path = "p"]),
   [doc EXCEPT !.dimensions = "large"]}

MCBundles ==
  {MCBundle}
    \cup {[MCBundle EXCEPT ![path] = NoFile] : path \in {"suite", "candidate"}}
    \cup {[MCBundle EXCEPT !.parent = doc] : doc \in Broken(MCBundle.parent)}
    \cup {[MCBundle EXCEPT !.candidate = doc] : doc \in Broken(MCBundle.candidate)}

MCEditions(path, content) ==
  CASE path = "manifest" -> {[content EXCEPT !.as = 2]}
    [] path = "policy" -> {NoFile}
    [] path = "candidate" /\ content # NoFile ->
         {Renewed([content EXCEPT !.mutable = Reverse(@)]),
          Document(<<Ref("prompt", "q", 3), Ref("index", "i", 1)>>)}
    [] path = "q" -> {3, NoFile}
    [] OTHER -> {}

MCSymmetry == Permutations(Plans)
=============================================================================
