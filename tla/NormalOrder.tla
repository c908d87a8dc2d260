---------------------------- MODULE NormalOrder ----------------------------
(***************************************************************************)
(* What a reduction promises, with terms instead of a shared graph: normal *)
(* order (leftmost-outermost) contraction, one at a time, until no redex   *)
(* is left, a term repeats while cycles are watched for, as many           *)
(* contractions were done as the limit allows, or somebody interrupts.  An *)
(* expression may ask for the reduction of a part, whose result takes the  *)
(* place of that part.                                                     *)
(*                                                                         *)
(* A term is its head and the arguments on its spine.                      *)
(***************************************************************************)
EXTENDS CombinatorRules

VARIABLES
    rest,               \* what has not been read yet of an expression, in
                        \* postfix order
    parts,              \* the terms its parts read so far have come to
    term,               \* the term under reduction, NoTerm between two
    past,               \* the terms of this reduction, the entered one first
    result,
    cycles, limit       \* options, fixed while a reduction lasts

vars == <<rest, parts, term, past, result, cycles, limit>>

Atom(a) == [head |-> a, args |-> <<>>]
NoTerm == Atom("none")

ApplyTo(t, args) == [t EXCEPT !.args = @ \o args]

IsHeadRedex(t) ==
    /\ t.head \in Combinators
    /\ Len(t.args) >= Rule[t.head].required_depth

\* The redex at the head of t, without the arguments it leaves alone.
HeadRedex(t) == [t EXCEPT !.args = SubSeq(@, 1, Rule[t.head].required_depth)]
OtherArgs(t) == SubSeq(t.args, Rule[t.head].required_depth + 1, Len(t.args))

\* The right-hand side of the redex's rule with its arguments put in.
Contractum(redex) ==
    LET r == Rule[redex.head]
        value[o \in Operand(r, Len(r.apps) + 1)] ==
            IF o > 0 THEN redex.args[o]
            ELSE ApplyTo(value[r.apps[-o].func], <<value[r.apps[-o].arg]>>)
    IN  value[r.result]

RECURSIVE HasRedex(_)
HasRedex(t) == IsHeadRedex(t) \/ \E i \in DOMAIN t.args : HasRedex(t.args[i])

\* The leftmost-outermost redex.
RECURSIVE NextRedex(_)
NextRedex(t) ==
    IF IsHeadRedex(t) THEN HeadRedex(t)
    ELSE NextRedex(t.args[CHOOSE i \in DOMAIN t.args :
                            /\ HasRedex(t.args[i])
                            /\ \A j \in 1..i-1 : ~HasRedex(t.args[j])])

\* All choices of one element from each set of a sequence of sets.
Choices(sets) ==
    {c \in [DOMAIN sets -> UNION {sets[i] : i \in DOMAIN sets}] :
        \A i \in DOMAIN sets : c[i] \in sets[i]}

\* t with any of its copies of a redex contracted: the copies that the graph
\* shares change together, the others do not.
RECURSIVE SomeCopies(_, _)
SomeCopies(t, redex) ==
    LET lists(args) == Choices([i \in DOMAIN args |-> SomeCopies(args[i], redex)])
    IN  {[t EXCEPT !.args = a] : a \in lists(t.args)}
        \cup IF IsHeadRedex(t) /\ HeadRedex(t) = redex
             THEN {ApplyTo(Contractum(redex), a) : a \in lists(OtherArgs(t))}
             ELSE {}

\* The same with the leftmost-outermost redex among the copies contracted.
RECURSIVE Steps(_)
Steps(t) ==
    LET copies(args) ==
            Choices([i \in DOMAIN args |-> SomeCopies(args[i], NextRedex(t))])
    IN  IF IsHeadRedex(t)
        THEN {ApplyTo(Contractum(HeadRedex(t)), a) : a \in copies(OtherArgs(t))}
        ELSE LET first == CHOOSE i \in DOMAIN t.args :
                            /\ HasRedex(t.args[i])
                            /\ \A j \in 1..i-1 : ~HasRedex(t.args[j])
             IN  {[t EXCEPT !.args = SubSeq(@, 1, first - 1) \o <<s>> \o a] :
                    s \in Steps(t.args[first]),
                    a \in copies(SubSeq(t.args, first + 1, Len(t.args)))}

-----------------------------------------------------------------------------
\* The cycle detector remembers what contractions produced, not the term
\* that was entered.
Repeats ==
    \E i \in 2..Len(past)-1 : past[i] = past[Len(past)]

Contractions == Len(past) - 1

\* No limit is 0.
LimitReached == limit > 0 /\ Contractions >= limit

MustStop == (cycles /\ Repeats) \/ LimitReached

Init ==
    /\ rest = <<>>
    /\ parts = <<>>
    /\ term = NoTerm
    /\ past = <<>>
    /\ result = "UNKNOWN"
    /\ cycles \in BOOLEAN
    /\ limit \in Nat

Idle == term = NoTerm /\ rest = <<>> /\ parts = <<>>

Choose ==
    /\ Idle
    /\ cycles' \in BOOLEAN
    /\ limit' \in Nat
    /\ UNCHANGED <<rest, parts, term, past, result>>

Enter ==
    /\ Idle
    /\ rest' \in Seq(Label \cup {Reduce})
    /\ UNCHANGED <<parts, term, past, result, cycles, limit>>

Read ==
    /\ term = NoTerm /\ rest # <<>>
    /\ rest' = Tail(rest)
    /\ LET k == Len(parts)
       IN  \/ /\ Head(rest) \in Combinators \cup Variables
              /\ parts' = Append(parts, Atom(Head(rest)))
           \/ /\ Head(rest) = App
              /\ parts' = Append(SubSeq(parts, 1, k - 2),
                                 ApplyTo(parts[k - 1], <<parts[k]>>))
    /\ UNCHANGED <<term, past, result, cycles, limit>>

\* A part, or the whole expression.
Begin ==
    /\ term = NoTerm /\ parts # <<>>
    /\ rest # <<>> => Head(rest) = Reduce
    /\ term' = parts[Len(parts)]
    /\ past' = <<term'>>
    /\ parts' = SubSeq(parts, 1, Len(parts) - 1)
    /\ UNCHANGED <<rest, result, cycles, limit>>

Contract ==
    /\ term # NoTerm /\ result = "UNKNOWN"
    /\ ~MustStop
    /\ past' = Append(past, term')
    /\ HasRedex(term)
    /\ term' \in Steps(term)
    /\ UNCHANGED <<rest, parts, result, cycles, limit>>

\* An interrupt may even overtake a result that was about to be reported.
Stop ==
    /\ term # NoTerm
    /\ \/ result = "UNKNOWN" /\ result' = "NORMAL_FORM" /\ ~HasRedex(term) /\ ~MustStop
       \/ result = "UNKNOWN" /\ result' = "CYCLE_DETECTED" /\ cycles /\ Repeats
       \/ result = "UNKNOWN" /\ result' = "REDUCTION_LIMIT" /\ LimitReached
       \/ result' = "INTERRUPT"
    /\ UNCHANGED <<rest, parts, term, past, cycles, limit>>

End ==
    /\ result # "UNKNOWN"
    /\ \/ rest = <<>> /\ UNCHANGED <<rest, parts>>
       \/ rest # <<>> /\ parts' = Append(parts, term) /\ rest' = Tail(rest)
    /\ term' = NoTerm
    /\ past' = <<>>
    /\ result' = "UNKNOWN"
    /\ UNCHANGED <<cycles, limit>>

Next == Choose \/ Enter \/ Read \/ Begin \/ Contract \/ Stop \/ End

Spec == Init /\ [][Next]_vars

=============================================================================
