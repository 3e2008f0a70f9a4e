--------------------------------- MODULE MCXer ---------------------------------
(***************************************************************************)
(* XER scripts, checked in one run: a behaviour exercises the codec, the   *)
(* processes that share the artifacts, or the parser, chosen by the        *)
(* initial state.                                                          *)
(*                                                                         *)
(* The codec meets scripts over two bytes, with the window and the literal *)
(* runs cut down so that both limits are met, and the low eight bits of    *)
(* the checksum.  Writers are interchangeable, and so are texts.  The      *)
(* parser meets every statement whose expressions nest twice, and every    *)
(* pair of declarations and small statements.                              *)
(***************************************************************************)
EXTENDS Sxer84321, XerArtifacts, XerParser, SequencesExt, Bitwise, TLC

CONSTANTS MaxInput

MCXor(a, b) == a ^^ b
MCInputs == UNION {[1 .. n -> {0, 97}] : n \in 0 .. MaxInput}
MCMask == [i \in 1 .. 16 |-> (i * 31) % 256]

\* Calls and object literals with up to n parts taken from values, which gives
\* the expressions with a label.
Whole(kind, flag, label, parts) == <<Node(kind, flag, label)>> \o FlattenSeq(parts) \o <<End>>
Parts(call, values(_), n) == UNION {[1 .. k -> UNION {values(l) : l \in Labels(call)}] : k \in 0 .. n}
Compound(values(_), n, label) ==
  {Whole("call", r, label, parts) : r \in BOOLEAN, parts \in Parts("call", values, n)}
    \cup {Whole("map", FALSE, label, parts) : parts \in Parts("map", values, n)}
Simple(label) == {<<Node("num", FALSE, label)>>, <<Node("id", FALSE, label)>>}
Small(label) == Simple(label) \cup Compound(Simple, 1, label)
Statements(values) == {<<Node("statement", l, "none")>> \o v : l \in BOOLEAN, v \in values}
Tiny == Simple("none") \cup Compound(Simple, 0, "none")
MCItems ==
  {<<Node("import", FALSE, "none")>>} \cup Statements(Tiny)
    \cup {Whole("function", a, "none", b) :
             a \in BOOLEAN,
             b \in {<<>>} \cup [1 .. 1 -> Statements(Tiny)]
                     \cup [1 .. 2 -> Statements({<<Node("id", FALSE, "none")>>})]}
MCPrograms ==
  {<<>>} \cup {<<Node("statement", FALSE, "none")>> \o v : v \in Compound(Small, 2, "none")}
    \cup Statements(Small("none")) \cup {a \o b : a \in MCItems, b \in MCItems}

Symmetry == Permutations(Writers) \cup Permutations(Texts)

VARIABLE unit

\* The units that are not exercised stay at one initial state.
ParserIdle == /\ program = <<>> /\ text = <<>> /\ stage = "new" /\ edited = FALSE
              /\ at = 0 /\ open = <<>> /\ built = <<>> /\ semicolons = {}

ScriptInit ==
  /\ \/ unit \in {"codec", "artifacts"} /\ ParserIdle
     \/ unit = "parser" /\ ParserInit
  /\ unit # "codec" => input = <<>>
  /\ unit # "artifacts" => source = CHOOSE t \in Texts : TRUE
  /\ CodecInit /\ XerInit

ScriptNext ==
  \/ unit = "codec" /\ CodecNext /\ UNCHANGED <<unit, xerVars, parserVars>>
  \/ unit = "artifacts" /\ XerNext /\ UNCHANGED <<unit, codecVars, parserVars>>
  \/ unit = "parser" /\ ParserNext /\ UNCHANGED <<unit, codecVars, xerVars>>

ScriptSpec == ScriptInit /\ [][ScriptNext]_<<unit, codecVars, xerVars, parserVars>>
=============================================================================
