------------------------------ MODULE CacheKey ------------------------------
(***************************************************************************)
(* cache.Key (src/cache/key.go): the canonical rendering of the arguments of *)
(* a cached method, and where it stops.                                     *)
(*                                                                         *)
(* A Go value is a tagged record: "nil"; a "basic" value, which is written  *)
(* as it is; a value that describes itself (Hashable, TextMarshaler); a     *)
(* pointer or an interface, a list or a struct with its parts in order; a   *)
(* map with its entries.  Values here are trees, so that the pointers on    *)
(* the current path, which stop a cycle, never meet.  A rendering is such a *)
(* record too instead of text, and the 64-bit hash of the text is taken to  *)
(* be free of collisions.  An empty list or map is taken for a nil one; the *)
(* code writes the two apart, which gives one query two keys and no two     *)
(* queries one.                                                             *)
(***************************************************************************)
EXTENDS Naturals, Sequences, Functions

CONSTANT MaxHeight  \* levels of a value (bound)

GoValue(kind, text, parts, entries) ==
  [kind |-> kind, text |-> text, parts |-> parts, entries |-> entries]

Nil == GoValue("nil", "", <<>>, {})
Basic(text) == GoValue("basic", text, <<>>, {})
SelfDescribed(text) == GoValue("self", text, <<>>, {})
Pointer(v) == GoValue("pointer", "", <<v>>, {})
GoList(vs) == IF vs = <<>> THEN Nil ELSE GoValue("list", "", vs, {})
Struct(type, fields) == GoValue("struct", type, fields, {})

\* A map from strings.
GoMap(f) == IF DOMAIN f = {} THEN Nil
            ELSE GoValue("map", "", <<>>, {<<Basic(k), f[k]>> : k \in DOMAIN f})

-----------------------------------------------------------------------------

keyMaxDepth == 12

Cut == GoValue("cut", "...", <<>>, {})

GoKinds == {"nil", "basic", "self", "pointer", "struct", "list", "map"}

GoValuesOver(inner) ==
  {v \in [kind : GoKinds, text : STRING, parts : Seq(inner),
          entries : SUBSET (inner \X inner)] :
     v.kind = "pointer" => v.parts # <<>>}

\* Values of at most n levels, pointers included.
GoValues[n \in Nat] == GoValuesOver(IF n = 0 THEN {} ELSE GoValues[n - 1])

(* The cases of writeCanonical, with w[<<v, depth>>] for how it writes a part. *)

\* mutant: a pointer counts as a level
WritePointerDeeper(w, v, depth) == w[<<v.parts[1], depth + 1>>]

\* A pointer is written as what it points to, at no cost in depth.
WritePointer(w, v, depth) == w[<<v.parts[1], depth>>]

\* Struct fields, with the name of the type but not its package.
WriteStruct(w, v, depth) ==
  Struct(v.text, [i \in DOMAIN v.parts |-> w[<<v.parts[i], depth + 1>>]])

WriteList(w, v, depth) ==
  GoList([i \in DOMAIN v.parts |-> w[<<v.parts[i], depth + 1>>]])

\* Entries are sorted, so their order does not matter.
WriteMap(w, v, depth) ==
  GoValue("map", "", <<>>,
    {<<w[<<e[1], depth + 1>>], w[<<e[2], depth + 1>>]>> : e \in v.entries})

\* Its text, without quotes.
WriteSelfDescribed(v) == SelfDescribed(v.text)

WriteValue(w, v, depth) ==
  IF depth > keyMaxDepth THEN Cut
  ELSE CASE v.kind = "nil"     -> Nil
         [] v.kind = "basic"   -> v
         [] v.kind = "self"    -> WriteSelfDescribed(v)
         [] v.kind = "pointer" -> WritePointer(w, v, depth)
         [] v.kind = "struct"  -> WriteStruct(w, v, depth)
         [] v.kind = "list"    -> WriteList(w, v, depth)
         [] v.kind = "map"     -> WriteMap(w, v, depth)

WriteCanonical(value, level) ==
  LET w[at \in GoValues[MaxHeight] \X (0 .. keyMaxDepth + 1)] ==
        WriteValue(w, at[1], at[2])
  IN w[<<value, level>>]

Key(method, params) ==
  <<method, [i \in DOMAIN params |-> WriteCanonical(params[i], 0)]>>

=============================================================================
