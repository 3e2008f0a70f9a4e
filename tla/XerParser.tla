------------------------------- MODULE XerParser -------------------------------
(***************************************************************************)
(* The parser of XER scripts (class Parser of xer/xer_script.cc), against  *)
(* the grammar its syntax tree stands for: a program is written down, the  *)
(* text may be edited, and is parsed.                                      *)
(*                                                                         *)
(* A token is its kind; names and values do not matter to the parser,      *)
(* except that a number may be too large ("big").  The lexer is left out.  *)
(* The parser is the machine of its recursive calls: open is the stack of  *)
(* those in progress, and a step reads the tokens of one node of the tree, *)
(* to any depth.                                                           *)
(***************************************************************************)
EXTENDS Integers, Sequences

CONSTANTS Programs,         \* the programs that are written down
          MaxEdited         \* bound on the length of a text that is edited

Kinds == {"id", "num", "big", "str", "import", "as", "async", "local", "then", "end",
          "(", ")", "{", "}", ",", ":", ";", "=", "->"}

VARIABLES program, text,    \* the program, and the tokens it is written with
          stage,            \* "new", "written", "edited", "parse", "parsed" or "failed"
          edited,           \* history: the text is no longer that of the program
          at,               \* index_: the tokens before the one the parser looks at
          open,             \* the parse functions that have not returned
          built,            \* the tree so far
          semicolons        \* history: the nodes after which a semicolon was read

parserVars == <<program, text, stage, edited, at, open, built, semicolons>>

(***************************************************************************)
(* The syntax tree, as the sequence of its nodes in the order of the text: *)
(* a function, a call or a map is followed by what it contains and by an   *)
(* "end", a statement by its value.  flag is is_async, or that the         *)
(* statement is local, or that the call has a receiver; label tells the    *)
(* name of an argument or the key of an entry.  The code keeps imports,    *)
(* functions and statements apart in three vectors.                        *)
(***************************************************************************)
Leaves == {"num", "str", "id"}
Lists == {"call", "map"}
Calls == {"function", "statement"} \cup Lists
NodeType == [kind : {"import", "end"} \cup Calls \cup Leaves, flag : BOOLEAN,
             label : {"none", "id", "str"}]
Node(kind, flag, label) == [kind |-> kind, flag |-> flag, label |-> label]
End == Node("end", FALSE, "none")

\* The innermost call in progress, the calls under it, and those that are left
\* once a value is complete, which is the end of a statement.
Top(s) == IF s = <<>> THEN "program" ELSE s[Len(s)]
Under(s) == SubSeq(s, 1, Len(s) - 1)
Returned(s) == IF Top(s) = "statement" THEN Under(s) ELSE s

\* The calls in progress after node e, and whether it ends a statement or a
\* declaration.
After(e, s) == CASE e.kind = "import" -> s
                 [] e.kind \in Calls -> Append(s, e.kind)
                 [] e.kind \in Leaves -> Returned(s)
                 [] e.kind = "end" -> Returned(Under(s))
Completes(e, s) == e.kind # "function" /\ Top(After(e, s)) \in {"program", "function"}

(***************************************************************************)
(* The grammar: where a node may be, and how it is written.                *)
(***************************************************************************)
Labels(call) == CASE call = "statement" -> {"none"}
                  [] call = "call" -> {"none", "id"}
                  [] call = "map" -> {"str", "id"}
                  [] OTHER -> {}

Fits(e, s) ==
  CASE e.kind \in {"import", "function"} ->
         s = <<>> /\ e.label = "none" /\ (e.flag => e.kind = "function")
    [] e.kind = "statement" -> Top(s) \in {"program", "function"} /\ e.label = "none"
    [] e.kind = "end" -> Top(s) \in {"function"} \cup Lists /\ e = End
    [] OTHER -> e.label \in Labels(Top(s)) /\ (e.flag => e.kind = "call")

Value(e) == CASE e.kind = "map" -> <<"{">>
              [] e.kind = "call" -> IF e.flag THEN <<"id", ":", "id", "(">> ELSE <<"id", "(">>
              [] OTHER -> <<e.kind>>

\* The tokens of node e, the first in its list or not.
Tokens(e, s, first) ==
  CASE e.kind = "import" -> <<"import", "(", "str", ")", "as", "id">>
    [] e.kind = "function" ->
         IF e.flag THEN <<"async", "id", "(", ")", "->", "then", "{">>
         ELSE <<"id", "(", ")", "->", "then", "{">>
    [] e.kind = "statement" -> IF e.flag THEN <<"local", "id", "=">> ELSE <<>>
    [] e.kind = "end" -> CASE Top(s) = "call" -> <<")">>
                           [] Top(s) = "map" -> <<"}">>
                           [] OTHER -> <<"}", "end">>
    [] OTHER -> (IF Top(s) \in Lists /\ ~first THEN <<",">> ELSE <<>>)
                  \o (IF e.label = "none" THEN <<>> ELSE <<e.label, ":">>) \o Value(e)

\* What the first n nodes of a tree are written as, with a semicolon after some
\* of them, and the calls that are open there.
Opens(tree, n) == n > 0 /\ tree[n].kind \in Lists
WithNode(tree, semis, n, before) ==
  [tokens |-> before.tokens \o Tokens(tree[n], before.open, Opens(tree, n - 1))
                \o (IF n \in semis THEN <<";">> ELSE <<>>),
   open |-> After(tree[n], before.open)]
Written(tree, semis) ==
  LET w[n \in 0 .. Len(tree)] == IF n = 0 THEN [tokens |-> <<>>, open |-> <<>>]
                                 ELSE WithNode(tree, semis, n, w[n - 1])
  IN w

WellFormed(tree) ==
  LET w == Written(tree, {}) IN
  w[Len(tree)].open = <<>> /\ \A n \in DOMAIN tree : Fits(tree[n], w[n - 1].open)

\* A semicolon may follow each declaration and each statement.
Endings(tree) ==
  LET w == Written(tree, {}) IN {n \in DOMAIN tree : Completes(tree[n], w[n - 1].open)}
ProgramTexts(tree) == {Written(tree, semis)[Len(tree)].tokens : semis \in SUBSET Endings(tree)}

ASSUME ProgramsAssumption ==
  Programs \subseteq Seq(NodeType) /\ \A p \in Programs : WellFormed(p)

(***************************************************************************)
(* class Parser.                                                           *)
(***************************************************************************)
Peek(i) == IF i < Len(text) THEN text[i + 1] ELSE "eof"
Reads(i, kinds) == \A k \in DOMAIN kinds : Peek(i + k - 1) = kinds[k]

\* The tokens before i are read and make node e, and so is the semicolon after a
\* statement or declaration (ConsumeOptionalSemicolon).
Make(e, i) ==
  /\ built' = Append(built, e) /\ open' = After(e, open)
  /\ IF Completes(e, open) /\ Peek(i) = ";"
     THEN at' = i + 1 /\ semicolons' = semicolons \cup {Len(built) + 1}
     ELSE at' = i /\ semicolons' = semicolons
  /\ UNCHANGED <<program, text, stage, edited>>

\* A ParserError, or the exception of stoll.
Fail == stage' = "failed" /\ UNCHANGED <<program, text, edited, at, open, built, semicolons>>

ParseImportDeclaration ==
  IF Reads(at + 1, <<"(", "str", ")", "as", "id">>)
  THEN Make(Node("import", FALSE, "none"), at + 6) ELSE Fail

\* Fault: async is not looked past.
FunctionDeclarationStartsSync(i) == Reads(i, <<"id", "(", ")", "->", "then">>)

IsFunctionDeclarationStart(i) ==
  Reads(IF Peek(i) = "async" THEN i + 1 ELSE i, <<"id", "(", ")", "->", "then">>)

ParseFunctionDeclaration ==
  LET async == Peek(at) = "async"
      start == (IF async THEN at + 1 ELSE at) + 5
  IN IF Peek(start) = "{" THEN Make(Node("function", async, "none"), start + 1) ELSE Fail

ParseStatement ==
  IF Peek(at) # "local" THEN Make(Node("statement", FALSE, "none"), at)
  ELSE IF Reads(at + 1, <<"id", "=">>) THEN Make(Node("statement", TRUE, "none"), at + 3)
  ELSE Fail

\* stoll throws on a number that is too large.
ParsePrimaryExpression(i, label) ==
  CASE Peek(i) \in {"num", "str"} -> Make(Node(Peek(i), FALSE, label), i + 1)
    [] Peek(i) = "{" -> Make(Node("map", FALSE, label), i + 1)
    [] Reads(i, <<"id", ":">>) ->
         IF Reads(i + 2, <<"id", "(">>) THEN Make(Node("call", TRUE, label), i + 4) ELSE Fail
    [] Reads(i, <<"id", "(">>) -> Make(Node("call", FALSE, label), i + 2)
    [] Peek(i) = "id" /\ Peek(i + 1) \notin {":", "("} -> Make(Node("id", FALSE, label), i + 1)
    [] OTHER -> Fail

\* An identifier before a colon is the name of an argument, also where it was
\* meant to be the receiver of a call.
ParseArgument(i) == IF Reads(i, <<"id", ":">>) THEN ParsePrimaryExpression(i + 2, "id")
                    ELSE ParsePrimaryExpression(i, "none")
ParseEntry(i) == IF Peek(i) \in {"str", "id"} /\ Peek(i + 1) = ":"
                 THEN ParsePrimaryExpression(i + 2, Peek(i)) ELSE Fail

\* The loop of ParseProgram.
ParseProgram ==
  /\ stage = "parse" /\ Top(open) = "program"
  /\ \/ /\ Peek(at) = "eof" /\ stage' = "parsed"
        /\ UNCHANGED <<program, text, edited, at, open, built, semicolons>>
     \/ Peek(at) = "import" /\ ParseImportDeclaration
     \/ IsFunctionDeclarationStart(at) /\ ParseFunctionDeclaration
     \/ /\ Peek(at) \notin {"eof", "import"} /\ ~IsFunctionDeclarationStart(at)
        /\ ParseStatement

\* The loop of ParseFunctionDeclaration, to the closing brace or the end of the text.
ParseBody ==
  /\ stage = "parse" /\ Top(open) = "function"
  /\ \/ Peek(at) \in {"}", "eof"} /\ IF Reads(at, <<"}", "end">>) THEN Make(End, at + 2) ELSE Fail
     \/ Peek(at) \notin {"}", "eof"} /\ ParseStatement

ParseValue == /\ stage = "parse" /\ Top(open) = "statement"
              /\ ParsePrimaryExpression(at, "none")

\* The loop of ParseCallExpression, or of ParseMapExpression: a list that is not
\* closed at once goes on as long as there are commas.
ParseList(call, close, ParsePart(_)) ==
  LET first == Opens(built, Len(built)) IN
  /\ stage = "parse" /\ Top(open) = call
  /\ \/ first /\ Peek(at) # close /\ ParsePart(at)
     \/ ~first /\ Peek(at) = "," /\ ParsePart(at + 1)
     \/ Peek(at) = close /\ Make(End, at + 1)
     \/ ~first /\ Peek(at) \notin {",", close} /\ Fail
ParseCallExpression == ParseList("call", ")", ParseArgument)
ParseMapExpression == ParseList("map", "}", ParseEntry)

(***************************************************************************)
(* Behaviours.                                                             *)
(***************************************************************************)
ParserInit == /\ program \in Programs /\ text = <<>> /\ stage = "new" /\ edited = FALSE
              /\ at = 0 /\ open = <<>> /\ built = <<>> /\ semicolons = {}

WriteProgram ==
  /\ stage = "new" /\ stage' = "written"
  /\ text' \in ProgramTexts(program)
  /\ UNCHANGED <<program, edited, at, open, built, semicolons>>

\* A token is removed, replaced or added.
Spliced(i, n, kinds) == SubSeq(text, 1, i) \o kinds \o SubSeq(text, i + n + 1, Len(text))
EditText ==
  /\ stage = "written" /\ stage' = "edited" /\ Len(text) <= MaxEdited
  /\ \E i \in 0 .. Len(text) :
       \/ text' = Spliced(i, 1, <<>>)
       \/ \E n \in {0, 1}, k \in Kinds : text' = Spliced(i, n, <<k>>)
  /\ edited' = TRUE /\ program' = <<>>
  /\ UNCHANGED <<at, open, built, semicolons>>

\* Run constructs a Parser on the tokens and calls ParseProgram.
ParseText ==
  /\ stage \in {"written", "edited"} /\ stage' = "parse"
  /\ UNCHANGED <<program, text, edited, at, open, built, semicolons>>

ParserNext == \/ WriteProgram \/ EditText \/ ParseText
              \/ ParseProgram \/ ParseBody \/ ParseValue
              \/ ParseCallExpression \/ ParseMapExpression
ParserSpec == ParserInit /\ [][ParserNext]_parserVars

(***************************************************************************)
(* Properties.                                                             *)
(***************************************************************************)
\* An argument without a name that is a call with a receiver.
HidesReceiver(tree) ==
  LET w == Written(tree, {}) IN
  \E n \in DOMAIN tree : tree[n] = Node("call", TRUE, "none") /\ Top(w[n - 1].open) = "call"

\* The parser accepts a text only as a program that is written that way; and a
\* program that was written down is parsed as itself, whatever semicolons are
\* left out, unless an argument of a call is itself a call with a receiver:
\* console:log(Timer:now()) is read as an argument named Timer
\* (xer_script.cc:578), and never as itself.
ParsesGrammar ==
  /\ stage = "parsed" => WellFormed(built) /\ text \in ProgramTexts(built)
  /\ stage \in {"parsed", "failed"} /\ ~edited =>
       (stage = "parsed" /\ built = program <=> ~HidesReceiver(program))
=============================================================================
