---------------------------- MODULE SessionFiles ----------------------------
(***************************************************************************)
(* The files of a session that the interface lists, reads and writes       *)
(* (resolveSessionFilePath; the handlers files:list, files:read and        *)
(* files:write).  A path is a sequence of names; a tree is a function from *)
(* the paths of the workspace to what is there: "none", "directory",       *)
(* "file" or "link".                                                       *)
(***************************************************************************)
EXTENDS Naturals, Sequences, SequencesExt

CONSTANTS
  Names,    \* the names of files; ".." and "odd" (not portable) besides
  MaxDepth  \* how deep the tree is

Base == <<"sessions", "s", "data">>
SubPaths == UNION {[1..n -> Names \cup {"..", "odd"}] : n \in 0..MaxDepth}
Under(dir, sub) == dir \o sub
Before(path) == {SubSeq(path, 1, n) : n \in 1..(Len(path) - 1)}

WholeTree == {Base} \cup {Under(Base, sub) : sub \in UNION {[1..n -> Names] : n \in 1..MaxDepth}}
Trees == {tree \in [WholeTree -> {"none", "directory", "file", "link"}] :
            /\ tree[Base] \in {"directory", "link"}   \* made with the session
            /\ \A path \in WholeTree \ {Base} : tree[path] # "none" => tree[Front(path)] = "directory"}

Error == <<"error">>

(* Every step but the last has to be a directory, and none may be a link.  *)
Resolve(tree, sub) ==
  LET steps == {Under(Base, SubSeq(sub, 1, n)) : n \in 0..Len(sub)}
  IN IF \/ \E n \in DOMAIN sub : sub[n] \in {"..", "odd"}
        \/ \E step \in steps : tree[step] = "link"
        \/ \E step \in steps \ {Base} : tree[Front(step)] # "directory"
     THEN Error ELSE Under(Base, sub)

List(tree, sub) ==
  LET dir == Resolve(tree, sub)
  IN IF dir = Error \/ tree[dir] = "file" THEN {}
     ELSE {path \in DOMAIN tree : path # Base /\ Front(path) = dir /\ tree[path] \in {"directory", "file"}}

Reads(tree, sub) == LET file == Resolve(tree, sub) IN file # Error /\ tree[file] = "file"

(* Variant with a fault: the directories on the way are made.              *)
WrittenWithParents(tree, sub) ==
  IF Resolve(tree, SubSeq(sub, 1, Len(sub) - 1)) = Error \/ sub = <<>> THEN tree
  ELSE [tree EXCEPT ![Under(Base, Front(sub))] = "directory", ![Under(Base, sub)] = "file"]

(* writeFileSync: into a directory that is there.                          *)
Written(tree, sub) ==
  IF Resolve(tree, sub) = Error \/ tree[Resolve(tree, sub)] = "directory" THEN tree
  ELSE [tree EXCEPT ![Resolve(tree, sub)] = "file"]

-----------------------------------------------------------------------------
(* A file that was written can be read and is listed, nothing else changes *)
(* by it, and it is in no linked directory; and what is listed as a file   *)
(* can be read, if its name is portable.                                   *)
FilesAreOwn(tree, sub) ==
  LET after == Written(tree, sub)
      path == Under(Base, sub)
  IN /\ after # tree =>
          /\ Reads(after, sub) /\ path \in List(after, Front(sub))
          /\ \A other \in DOMAIN tree \ {path} : after[other] = tree[other]
          /\ \A step \in Before(path) : step \in DOMAIN tree => tree[step] = "directory"
     /\ \A listed \in List(tree, sub) :
          tree[listed] = "file" => Reads(tree, SubSeq(listed, Len(Base) + 1, Len(listed)))
=============================================================================
