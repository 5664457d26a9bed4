------------------------------ MODULE VarTypes ------------------------------
(***************************************************************************)
(* The names of C++ types that flattened serializers carry, such as         *)
(* CHandle< CDOTASpecGraphPlayerData >[24]: crates/haste_vartype.           *)
(*                                                                         *)
(* The tokenizer works on characters.  The parser is a recursive descent   *)
(* whose calls are the frames of a stack here; one action is one token that *)
(* the innermost call asks for, or the return of that call.                 *)
(***************************************************************************)
EXTENDS Naturals, Sequences, SequencesExt, TypeExprs

CONSTANTS
  Inputs,        \* the names that are parsed: sequences of characters
  Letters, Digits, Underscore, Spaces,   \* classes of characters
  FitsUsize(_)   \* whether a literal, a sequence of digits, is a usize

ASSUME VarTypesAssumption ==
  \A name \in Inputs : name \in Seq({name[k] : k \in DOMAIN name})

VARIABLES
  input,      \* the name, which no action changes
  offset,     \* where the cursor is in it
  prev_token, \* a token that was given back
  frames,     \* the running calls of parse, outermost first
  parsed,     \* the outcome of the outermost call
  taken       \* history: every token that the tokenizer yielded

varTypeVars == <<input, offset, prev_token, frames, parsed, taken>>

-----------------------------------------------------------------------------
(* Tokenizer *)

Symbols == [c \in {"<", ">", "[", "]", "*"} |->
              CASE c = "<" -> "LAngle"  [] c = ">" -> "RAngle"
                [] c = "[" -> "LSquare" [] c = "]" -> "RSquare"
                [] c = "*" -> "Asterisk"]

Token(kind, text) == [kind |-> kind, text |-> text]
NoToken == Token("none", <<>>)

\* The characters of is_ident_start and is_ident_continue.
IdentStart    == Letters
IdentContinue == Letters \union Digits \union Underscore

\* The first position from i on whose character is not one of chars.
EatWhile(i, chars) ==
  CHOOSE j \in i .. Len(input) + 1 :
    /\ \A k \in i .. j - 1 : input[k] \in chars
    /\ j <= Len(input) => input[j] \notin chars

\* The token that the cursor is before, and where it ends.
NextToken ==
  LET start == EatWhile(offset, Spaces)
      Upto(kind, end) == [token |-> Token(kind, SubSeq(input, start, end - 1)),
                          end   |-> end]
  IN  IF start > Len(input) THEN [token |-> NoToken, end |-> start]
      ELSE LET ch == input[start]
           IN CASE ch \in DOMAIN Symbols -> Upto(Symbols[ch], start + 1)
                [] ch \in IdentStart -> Upto("Ident", EatWhile(start + 1, IdentContinue))
                [] ch \in Digits     -> Upto("Lit", EatWhile(start + 1, Digits))
                [] OTHER             -> Upto("unknown", start + 1)

-----------------------------------------------------------------------------
(* Parser *)

NoExpr  == [kind |-> "none"]
Running == [is |-> "running"]
Ok(e)   == [is |-> "ok", expr |-> e]
Err(w)  == [is |-> "error", why |-> w]

\* A call of parse: what it has built, the operand it waits to close, and
\* what it wants next.
Call == [expr |-> NoExpr, operand |-> NoExpr, wants |-> "Ident"]
Top  == Last(frames)
SetTop(call) == frames' = [frames EXCEPT ![Len(frames)] = call]

VarTypesInit ==
  /\ input \in Inputs
  /\ offset = 1
  /\ prev_token = NoToken
  /\ frames = <<Call>>
  /\ parsed = Running
  /\ taken = <<>>

\* next_token: the token given back, or the tokenizer's next one.
Take(token) ==
  IF prev_token # NoToken
  THEN /\ token = prev_token
       /\ prev_token' = NoToken
       /\ UNCHANGED <<offset, taken>>
  ELSE /\ token = NextToken.token
       /\ offset' = NextToken.end
       /\ taken' = IF token = NoToken THEN taken ELSE Append(taken, token)
       /\ UNCHANGED prev_token

Upcoming == IF prev_token # NoToken THEN prev_token ELSE NextToken.token

Asks(wants) == parsed = Running /\ Top.wants = wants /\ UNCHANGED input

Fail(why) == parsed' = Err(why) /\ UNCHANGED frames

\* expect_token of a call that wants one of the kinds, and what is then done.
Expect(kinds, Then) ==
  /\ Take(Upcoming)
  /\ \/ Upcoming.kind \in kinds /\ Then
     \/ Upcoming = NoToken /\ Fail("UnexpectedEof")
     \/ Upcoming.kind = "unknown" /\ Fail("UnknownChar")
     \/ Upcoming.kind \notin kinds \union {"none", "unknown"} /\ Fail("UnexpectedToken")

First ==
  /\ Asks("Ident")
  /\ Expect({"Ident"},
       /\ SetTop([Top EXCEPT !.expr = Ident(Upcoming.text), !.wants = "more"])
       /\ UNCHANGED parsed)

\* The end of a call of parse: its caller, if any, waits for the right angle.
Return ==
  IF Len(frames) = 1
  THEN parsed' = Ok(Top.expr) /\ UNCHANGED frames
  ELSE /\ frames' = [i \in 1 .. Len(frames) - 1 |->
                       IF i = Len(frames) - 1
                       THEN [frames[i] EXCEPT !.operand = Top.expr, !.wants = "RAngle"]
                       ELSE frames[i]]
       /\ UNCHANGED parsed

EndOfInput == Asks("more") /\ Take(NoToken) /\ Return

\* A closing token is not this call's: it is given back.
GiveBack ==
  /\ Asks("more")
  /\ prev_token = NoToken
  /\ NextToken.token.kind \in {"RAngle", "RSquare"}
  /\ offset' = NextToken.end
  /\ taken' = Append(taken, NextToken.token)
  /\ prev_token' = NextToken.token
  /\ Return

OpenAngle ==
  /\ Asks("more") /\ Upcoming.kind = "LAngle" /\ Take(Upcoming)
  /\ frames' = Append(frames, Call)
  /\ UNCHANGED parsed

OpenSquare ==
  /\ Asks("more") /\ Upcoming.kind = "LSquare" /\ Take(Upcoming)
  /\ SetTop([Top EXCEPT !.wants = "length"])
  /\ UNCHANGED parsed

Asterisk ==
  /\ Asks("more") /\ Upcoming.kind = "Asterisk" /\ Take(Upcoming)
  /\ SetTop([Top EXCEPT !.expr = Pointer(@)])
  /\ UNCHANGED parsed

Unexpected ==
  /\ Asks("more") /\ Take(Upcoming)
  /\ \/ Upcoming.kind \in {"Ident", "Lit"} /\ Fail("UnexpectedToken")
     \/ Upcoming.kind = "unknown" /\ Fail("UnknownChar")

\* Mutant of Length: the length must be a name.
LengthNamed ==
  /\ Asks("length")
  /\ Expect({"Ident"},
       /\ SetTop([Top EXCEPT !.wants = "RSquare", !.operand = Ident(Upcoming.text)])
       /\ UNCHANGED parsed)

Length ==
  /\ Asks("length")
  /\ Expect({"Ident", "Lit"},
       IF Upcoming.kind = "Lit" /\ ~FitsUsize(Upcoming.text)
       THEN Fail("UnexpectedToken")
       ELSE /\ SetTop([Top EXCEPT !.wants = "RSquare",
                         !.operand = IF Upcoming.kind = "Lit" THEN Num(Upcoming.text)
                                                           ELSE Ident(Upcoming.text)])
            /\ UNCHANGED parsed)

CloseSquare ==
  /\ Asks("RSquare")
  /\ Expect({"RSquare"},
       /\ SetTop([expr |-> Array(Top.expr, Top.operand), operand |-> NoExpr, wants |-> "more"])
       /\ UNCHANGED parsed)

\* Mutant of CloseAngle: the template and its argument change places.
CloseAngleSwapped ==
  /\ Asks("RAngle")
  /\ Expect({"RAngle"},
       /\ SetTop([expr |-> Template(Top.operand, Top.expr), operand |-> NoExpr, wants |-> "more"])
       /\ UNCHANGED parsed)

CloseAngle ==
  /\ Asks("RAngle")
  /\ Expect({"RAngle"},
       /\ SetTop([expr |-> Template(Top.expr, Top.operand), operand |-> NoExpr, wants |-> "more"])
       /\ UNCHANGED parsed)

VarTypesNext ==
  \/ First \/ EndOfInput \/ GiveBack \/ OpenAngle \/ OpenSquare
  \/ Asterisk \/ Unexpected \/ Length \/ CloseSquare \/ CloseAngle

VarTypesSpec == VarTypesInit /\ [][VarTypesNext]_varTypeVars

-----------------------------------------------------------------------------
(* The grammar that the parser is to decide:                                *)
(*   type ::= Ident | type * | type < type > | type [ Ident ] | type [ Lit ] *)
(* where a literal fits into a usize.                                       *)

Lengths(token) ==
  CASE token.kind = "Ident" -> {Ident(token.text)}
    [] token.kind = "Lit"   -> IF FitsUsize(token.text) THEN {Num(token.text)} ELSE {}
    [] OTHER                -> {}

\* The types that n tokens from the i-th on spell, where spelt tells those that
\* fewer tokens spell: by the last of them.
SpeltBy(tokens, spelt, n, i) ==
  CASE n > 0 /\ tokens[i + n - 1].kind = "Ident" ->
         IF n = 1 THEN {Ident(tokens[i].text)} ELSE {}
    [] n > 0 /\ tokens[i + n - 1].kind = "Asterisk" ->
         {Pointer(e) : e \in spelt[n - 1][i]}
    [] n > 3 /\ tokens[i + n - 1].kind = "RSquare" ->
         IF tokens[i + n - 3].kind = "LSquare"
         THEN {Array(e, len) : e \in spelt[n - 3][i], len \in Lengths(tokens[i + n - 2])} ELSE {}
    [] n > 3 /\ tokens[i + n - 1].kind = "RAngle" ->
         UNION {{Template(e, arg) : e \in spelt[k][i], arg \in spelt[n - 2 - k][i + k + 1]} :
                  k \in {k \in 1 .. n - 3 : tokens[i + k].kind = "LAngle"}}
    [] OTHER -> {}

Spelt(tokens) ==
  LET spelt[n \in 0 .. Len(tokens)] ==
        [i \in 1 .. Len(tokens) - n + 1 |-> SpeltBy(tokens, spelt, n, i)]
  IN  spelt

Types(tokens) == Spelt(tokens)[Len(tokens)][1]
IsType(tokens) == Types(tokens) # {}

\* Some type begins with these tokens: one that ends what they began last, and
\* closes the angles that are open.
Endings == {<<>>, <<"Ident">>, <<"RSquare">>, <<"Ident", "RSquare">>}
Completion(ending, angles) ==
  [k \in 1 .. Len(ending) + angles |->
     Token(IF k <= Len(ending) THEN ending[k] ELSE "RAngle", <<>>)]
Viable(tokens) ==
  \E ending \in Endings, angles \in 0 .. Len(tokens) :
    IsType(tokens \o Completion(ending, angles))

\* What is left pending, and what was read without it.
GivenBack == IF prev_token = NoToken THEN <<>> ELSE <<prev_token>>
Accepted == IF prev_token = NoToken THEN taken ELSE Front(taken)

(* A parsed type is what the tokens spell; only a closing token that belongs  *)
(* to nothing, and what follows it, may be left unread (parser.rs:59-108).  *)
ParsedAsWritten ==
  parsed.is = "ok" =>
    /\ taken = Accepted \o GivenBack
    /\ parsed.expr \in Types(Accepted)
    /\ prev_token = NoToken => NextToken.token = NoToken

(* A name is rejected only when no type begins with the tokens that were     *)
(* read, at the first token of which that is true, and the end of the input  *)
(* is called unexpected only where a type has begun (parser.rs:47-57).       *)
RejectsFirstWrong ==
  parsed.is = "error" =>
    IF parsed.why = "UnexpectedEof"
    THEN NextToken.token = NoToken /\ Viable(taken) /\ ~IsType(taken)
    ELSE /\ Viable(Front(taken)) /\ ~Viable(taken)
         /\ (parsed.why = "UnknownChar") = (Last(taken).kind = "unknown")
=============================================================================
