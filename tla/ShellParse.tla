------------------------------ MODULE ShellParse ------------------------------
(***************************************************************************)
(* The parser of the shell (sh.c): a recursive descent over the characters *)
(* of a line, checked on every line up to a length against the grammar it  *)
(* implements.  A word is kept as <<q, eq>>, its first character and the   *)
(* one after its last; a panic of the parser is the result Bad.            *)
(***************************************************************************)
EXTENDS Naturals, Sequences, FiniteSetsExt, SequencesExt

CONSTANTS Chars,        \* characters typed; "a" stands for any word character
          MAXARGS, MaxLen

VARIABLE line
vars == line

whitespace == {" "}
symbols == {"<", "|", ">", "&", ";", "(", ")"}
NUL == "0"
At(i) == IF i <= Len(line) THEN line[i] ELSE NUL
Bad == [c |-> <<"bad">>, rs |-> <<>>, at |-> 0]

-----------------------------------------------------------------------------
(* sh.c.                                                                   *)

(* The first place from i on whose character is not in S.                  *)
Past(i, S) == Min({j \in i .. Len(line) + 1 : At(j) \notin S})
Skip(i) == Past(i, whitespace)

TokenEnd(b) ==
    IF At(b) = NUL THEN b
    ELSE IF At(b) = ">" /\ At(b + 1) = ">" THEN b + 2
    ELSE IF At(b) \in symbols THEN b + 1
    ELSE Past(b, Chars \ (whitespace \cup symbols))
TokenAt(q, eq) ==
    [tok |-> IF eq = q + 2 /\ At(q) = ">" THEN "+" ELSE At(q), word |-> <<q, eq>>, at |-> Skip(eq)]
gettoken(i) == TokenAt(Skip(i), TokenEnd(Skip(i)))
peek(i, toks) == At(Skip(i)) \in toks

(* A recursive descent is a recursive function of the place reached.       *)
Place == 1 .. Len(line) + 1

(* The redirections read from place i on.  Each is wrapped around the      *)
(* command so far, so the last one read is the first one made.             *)
Redirected(tok, f, more) ==
    IF f.tok # "a" THEN Bad ELSE [more[f.at] EXCEPT !.c = << <<tok, f.word>> >> \o @]
parseredirs[i \in Place] ==
    IF peek(i, {"<", ">"})
    THEN Redirected(gettoken(i).tok, gettoken(gettoken(i).at), parseredirs)
    ELSE [c |-> <<>>, rs |-> <<>>, at |-> Skip(i)]
redircmd(cmd, rs) == FoldLeft(LAMBDA c, r : <<"redir", r, c>>, cmd, rs)

(* The loop of parseexec, with argc arguments read: the arguments and      *)
(* redirections from place i on.                                           *)
Argument(t, rs, more) ==
    IF rs.at = 0 \/ more[rs.at].at = 0 THEN Bad
    ELSE [more[rs.at] EXCEPT !.c = <<t.word>> \o @, !.rs = rs.c \o @]
parseargs[argc \in 0 .. MAXARGS, i \in Place] ==
    IF peek(i, {"|", ")", "&", ";"}) \/ gettoken(i).tok = NUL
    THEN [c |-> <<>>, rs |-> <<>>, at |-> Skip(i)]
    ELSE IF gettoken(i).tok # "a" \/ argc + 1 >= MAXARGS THEN Bad
    ELSE Argument(gettoken(i), parseredirs[gettoken(i).at],
                  [k \in Place |-> parseargs[argc + 1, k]])

(* From here on P is the descent itself (parse, below), and an argument    *)
(* that is a result may be Bad.                                            *)
Wrap(cmd, rs) == IF rs.at = 0 THEN Bad ELSE [c |-> redircmd(cmd, rs.c), rs |-> <<>>, at |-> rs.at]
BlockEnd(body) ==
    IF body.at = 0 \/ ~peek(body.at, {")"}) THEN Bad
    ELSE Wrap(body.c, parseredirs[gettoken(body.at).at])
parseblock(P, i) == BlockEnd(P["line", gettoken(i).at])

Command(rs, args) ==
    IF args.at = 0 THEN Bad
    ELSE [c |-> redircmd(<<"exec", args.c>>, rs \o args.rs), rs |-> <<>>, at |-> args.at]
ExecEnd(rs) == IF rs.at = 0 THEN Bad ELSE Command(rs.c, parseargs[0, rs.at])
parseexec(P, i) == IF peek(i, {"("}) THEN parseblock(P, i) ELSE ExecEnd(parseredirs[i])

Join(kind, left, right) ==
    IF right.at = 0 THEN Bad ELSE [right EXCEPT !.c = <<kind, left.c, @>>]
PipeEnd(P, left) ==
    IF left.at = 0 \/ ~peek(left.at, {"|"}) THEN left
    ELSE Join("pipe", left, P["pipe", gettoken(left.at).at])
parsepipe(P, i) == PipeEnd(P, parseexec(P, i))

(* The loop over "&": p's command, in the background as often as one       *)
(* follows.                                                                *)
backs(p) ==
    LET after[k \in Nat] == IF k = 0 THEN Skip(p.at) ELSE gettoken(after[k - 1]).at
        amps == Min({k \in 0 .. Len(line) : ~peek(after[k], {"&"})})
    IN  IF p.at = 0 THEN Bad
        ELSE [p EXCEPT !.c = FoldLeft(LAMBDA d, k : <<"back", d>>, @, [k \in 1 .. amps |-> k]),
                       !.at = after[amps]]
LineEnd(P, left) ==
    IF left.at = 0 \/ ~peek(left.at, {";"}) THEN left
    ELSE Join("list", left, P["line", gettoken(left.at).at])
MutantParseline(P, i) == backs(P["pipe", i])
parseline(P, i) == LineEnd(P, backs(P["pipe", i]))

parse[what \in {"line", "pipe"}, i \in Place] ==
    IF what = "line" THEN parseline(parse, i) ELSE parsepipe(parse, i)

AllOf(p) == IF p.at = 0 \/ Skip(p.at) # Len(line) + 1 THEN Bad.c ELSE p.c
parsecmd == AllOf(parse["line", 1])

(* The places nulterminate puts a NUL: the end of every word of the tree.  *)
(* Each level of a tree takes a character, so MaxLen + 1 bounds its depth. *)
Children(c) == CASE c[1] \in {"exec", "bad"} -> {}
                 [] c[1] = "redir" -> {c[3]}
                 [] c[1] \in {"pipe", "list"} -> {c[2], c[3]}
                 [] c[1] = "back" -> {c[2]}
Nodes(c) ==
    LET upTo[n \in 0 .. MaxLen + 1] ==
          IF n = 0 THEN {c} ELSE {c} \cup UNION {Children(d) : d \in upTo[n - 1]}
    IN  upTo[MaxLen + 1]
nulterminate(cmd) ==
    UNION {CASE c[1] = "exec" -> {c[2][i][2] : i \in DOMAIN c[2]}
             [] c[1] = "redir" -> {c[2][2][2]}
             [] OTHER -> {} : c \in Nodes(cmd)}

Init == line = <<>>
TypeChar(c) == Len(line) < MaxLen /\ line' = Append(line, c)
Next == \E c \in Chars : TypeChar(c)
Spec == Init /\ [][Next]_vars

-----------------------------------------------------------------------------
(* The grammar, on tokens, by splitting a line at the operators that are   *)
(* outside all parentheses:                                                *)
(*     line ::= jobs [; line]     jobs ::= pipe {&}    pipe ::= atom [| pipe]      *)
(*     atom ::= ( line ) {redir}  |  {word | redir}    redir ::= [<|>|>>] word     *)

IsWord(c) == c \in Chars \ (whitespace \cup symbols)
(* How many ">" stand directly before place i.                             *)
Run(i) == i - 1 - Max({j \in 0 .. i - 1 : j = 0 \/ At(j) # ">"})
Starts == {i \in 1 .. Len(line) :
             CASE At(i) \in whitespace -> FALSE
               [] IsWord(At(i)) -> i = 1 \/ ~IsWord(At(i - 1))
               [] At(i) = ">" -> Run(i) % 2 = 0
               [] OTHER -> TRUE}
WordEnd(i) == Min({j \in i .. Len(line) + 1 : ~IsWord(At(j))})
Token(i) == IF IsWord(At(i)) THEN <<"a", <<i, WordEnd(i)>> >>
            ELSE IF At(i) = ">" /\ At(i + 1) = ">" THEN <<"+">> ELSE <<At(i)>>
Tokens == LET at == SetToSortSeq(Starts, <) IN [k \in DOMAIN at |-> Token(at[k])]

Count(t, k, x) == Cardinality({j \in 1 .. k : t[j] = <<x>>})
Outside(t, x) == {k \in DOMAIN t : t[k] = <<x>> /\ Count(t, k, "(") = Count(t, k, ")")}
After(t, k) == SubSeq(t, k + 1, Len(t))
Failed(c) == c = <<"bad">>
Both(kind, l, r) == IF Failed(l) \/ Failed(r) THEN <<"bad">> ELSE <<kind, l, r>>

IsRedir(x) == x \in {<<"<">>, <<">">>, <<"+">>}
Redirs(t) == {k \in DOMAIN t : IsRedir(t[k])}
(* Only words and redirections, each with its file.                        *)
Plain(t) == /\ \A k \in DOMAIN t : t[k][1] = "a" \/ IsRedir(t[k])
            /\ \A k \in Redirs(t) : k + 1 \in DOMAIN t /\ t[k + 1][1] = "a"
FilesOf(t) == LET at == SetToSortSeq(Redirs(t), <)
              IN  [i \in DOMAIN at |-> <<t[at[i]][1], t[at[i] + 1][2]>>]
ArgsOf(t) == LET at == SetToSortSeq({k \in DOMAIN t : t[k][1] = "a" /\ (k = 1 \/ ~IsRedir(t[k - 1]))}, <)
             IN  [i \in DOMAIN at |-> t[at[i]][2]]
Wrapped(c, files) == IF Failed(c) THEN c ELSE FoldLeft(LAMBDA d, r : <<"redir", r, d>>, c, files)

(* G[what, a, b] is the tree of tokens a .. b of T.                        *)
GAtom(G, T, a, b) ==
    LET t == SubSeq(T, a, b)
        close == {k \in Outside(t, ")") : k > 1}
        tail == After(t, Min(close))
    IN  IF t # <<>> /\ t[1] = <<"(">>
        THEN IF close = {} THEN <<"bad">>
             ELSE IF ~Plain(tail) \/ ArgsOf(tail) # <<>> THEN <<"bad">>
             ELSE Wrapped(G["line", a + 1, a + Min(close) - 2], FilesOf(tail))
        ELSE IF ~Plain(t) \/ Len(ArgsOf(t)) >= MAXARGS THEN <<"bad">>
        ELSE Wrapped(<<"exec", ArgsOf(t)>>, FilesOf(t))
GPipe(G, T, a, b) ==
    LET k == Outside(SubSeq(T, a, b), "|")
        at == a + Min(k) - 1
    IN  IF k = {} THEN GAtom(G, T, a, b)
        ELSE Both("pipe", GAtom(G, T, a, at - 1), G["pipe", at + 1, b])
GJobs(G, T, a, b) ==
    IF a <= b /\ T[b] = <<"&">>
    THEN LET c == G["jobs", a, b - 1] IN IF Failed(c) THEN c ELSE <<"back", c>>
    ELSE G["pipe", a, b]
GLine(G, T, a, b) ==
    LET k == Outside(SubSeq(T, a, b), ";")
        at == a + Min(k) - 1
    IN  IF k = {} THEN G["jobs", a, b] ELSE Both("list", G["jobs", a, at - 1], G["line", at + 1, b])
Grammar(T) ==
    LET G[what \in {"line", "jobs", "pipe"}, a \in 1 .. Len(T) + 1, b \in 0 .. Len(T)] ==
          CASE what = "line" -> GLine(G, T, a, b)
            [] what = "jobs" -> GJobs(G, T, a, b)
            [] what = "pipe" -> GPipe(G, T, a, b)
    IN  G["line", 1, Len(T)]

-----------------------------------------------------------------------------
(* Properties.                                                             *)

(* The descent of sh.c yields the tree the grammar gives the line, and     *)
(* panics on exactly the lines the grammar does not have.                  *)
ParsesByGrammar == parsecmd = Grammar(Tokens)

(* After nulterminate every word of the command, read as a C string, is    *)
(* the word that was typed: no terminator falls within another word.       *)
Terminated(cmd, nuls) ==
    cmd # Bad.c => \A t \in {u \in Range(Tokens) : u[1] = "a"} :
        t[2][2] \in nuls /\ nuls \cap t[2][1] .. t[2][2] - 1 = {}
WordsTerminated == Terminated(parsecmd, nulterminate(parsecmd))

=============================================================================
