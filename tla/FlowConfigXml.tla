---------------------------- MODULE FlowConfigXml -----------------------------
(***************************************************************************)
(* How the program reads an XML file: config_load and the searches of      *)
(* flow_config_xml.c, on a document as libxml leaves it in memory.         *)
(*                                                                         *)
(* A file is [exists, reads, root]: reads[e] says what xmlReadFile makes   *)
(* of it in the encoding e, a document with a root element, one without    *)
(* (XML_PARSE_RECOVER may leave that), or none.  An element is a record    *)
(* with a tag, its name, and the children of a root or a section are a     *)
(* sequence.  The place of an element is its index; 0 is a NULL node.      *)
(***************************************************************************)
EXTENDS Integers, SequencesExt

CONSTANT NULL      \* no document

Encodings == {"UTF-8", "GB2312", "UNICODE"}
Readings  == {"root", "rootless", "none"}

(* config_load: the encodings in turn.  proot is set after the first       *)
(* reading only, and asked after each: where UTF-8 yields no root element, *)
(* the other two readings are thrown away however good they are.           *)
ConfigLoad(f) ==
  LET proot == IF f.reads["UTF-8"] = "root" THEN f.root ELSE NULL
      Taken(e) == f.reads[e] # "none" /\ proot # NULL
  IN IF f.exists /\ \E e \in Encodings : Taken(e) THEN f.root ELSE NULL

(* config_search_list: the first element named v from place i on.          *)
SearchList(s, i, v) ==
  LET hits == {j \in i..Len(s) : s[j].tag = v} IN IF hits = {} THEN 0 ELSE Min(hits)

SearchChildren(s, v) == SearchList(s, 1, v)

SearchNext(s, i, v) == SearchList(s, i + 1, v)

(* The children of the first section named f2 of a root named f1.          *)
Section(root, f1, f2) ==
  LET at == SearchChildren(root.children, f2)
  IN IF root.tag # f1 \/ at = 0 THEN << >> ELSE root.children[at].children

(* config_search3: the place of the first f3 in that section.              *)
Search3(root, f1, f2, f3) == SearchChildren(Section(root, f1, f2), f3)
===============================================================================
