---------------------------- MODULE MCXmlParser -----------------------------
(***************************************************************************)
(* XmlParser over <a><b><a/></b>text<b/></a> with a comment behind it,    *)
(* <a><a><a/></a><b/></a>, and three documents whose paths just fill the   *)
(* string for them: that of a parent, that of a node, or one name.         *)
(***************************************************************************)
EXTENDS XmlParser, TLC

a == 97
b == 98

Symmetry == Permutations(Callback)

MCDocs == {
    [parent |-> <<0, 1, 2, 1, 1, 0>>,
     name   |-> <<<<a>>, <<b>>, <<a>>, <<>>, <<b>>, <<>>>>],
    [parent |-> <<0, 1, 2, 1>>,
     name   |-> <<<<a>>, <<a>>, <<a>>, <<b>>>>],
    [parent |-> <<0, 1, 2, 1, 4>>,
     name   |-> <<<<a>>, <<b, b>>, <<b>>, <<b, b, b>>, <<b>>>>],
    [parent |-> <<0, 1>>,
     name   |-> <<<<a, b, a, b, a>>, <<b>>>>],
    [parent |-> <<0>>, name |-> <<<<a, b, a, b, a, b>>>>]}

MCPath == {<<47, a>>, <<47, a, 47, b>>, <<47, a, 47, b, 47, a>>, <<b>>,
           <<47, a, b, a, b, a, b>>}
=============================================================================
