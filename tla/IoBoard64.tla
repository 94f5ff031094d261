----------------------------- MODULE IoBoard64 ------------------------------
(***************************************************************************)
(* The I/O board the 64-bit runtime pretends to be                         *)
(* (src/src/runtime64/dispatch64.c, --io-board): it writes the cabinet     *)
(* library's own globals, from every guest thread that asks the library    *)
(* for its state and from a ticker of its own, while the library's init    *)
(* may zero them again.  Each write of a priming is a step.  The busy byte *)
(* is left out, which only --rs-poke ever sets; so are the switch bytes.   *)
(***************************************************************************)
EXTENDS Integers, FiniteSets

CONSTANTS
    Asker,      \* guest threads that call the library
    Ticker,     \* io_board_thread
    MaxInits    \* bound: how often the library's own init runs

ASSUME BoardAssumption == MaxInits \in Nat

VARIABLES
    word,       \* state: 0 not set, 2 up (0x141F2E310)
    nodes,      \* nodes on the bus (0x141F2E338)
    table,      \* whose node table is published: "none", "ours", "game" (0x141F2E770)
    ident,      \* the tables whose records carry the board's identity
    priming,    \* where each thread is: [at, base, clean]
    ticking,    \* has the ticker been started
    inits       \* inits so far

ioVars == <<word, nodes, table, ident, priming, ticking, inits>>

Primer == Asker \cup {Ticker}
Out    == [at |-> "out", base |-> "none", clean |-> FALSE]

IoInit ==
    /\ word = 0 /\ nodes = 0 /\ table = "none"
    /\ ident = {}
    /\ priming = [p \in Primer |-> Out]
    /\ ticking = FALSE /\ inits = 0

Goes(p, from, to) ==
    /\ priming[p].at = from
    /\ priming' = [priming EXCEPT ![p].at = to]

\* What if the ticker's loop never ran?
PrimeUnticked(p) ==
    /\ priming[p] = Out
    /\ p # Ticker
    /\ priming' = [priming EXCEPT ![p] = [at |-> "word", base |-> "none", clean |-> TRUE]]
    /\ UNCHANGED <<word, nodes, table, ident, ticking, inits>>

\* io_board_call: one of the three accessors is dispatched; the ticker's loop.
Prime(p) ==
    /\ priming[p] = Out
    /\ p = Ticker => ticking
    /\ priming' = [priming EXCEPT ![p] = [at |-> "word", base |-> "none", clean |-> TRUE]]
    /\ UNCHANGED <<word, nodes, table, ident, ticking, inits>>

PrimeWord(p) ==
    /\ Goes(p, "word", "nodes") /\ word' = 2
    /\ UNCHANGED <<nodes, table, ident, ticking, inits>>

PrimeNodes(p) ==
    /\ Goes(p, "nodes", "table") /\ nodes' = 1
    /\ UNCHANGED <<word, table, ident, ticking, inits>>

\* With no board there is no table: the runtime publishes its own, a step after
\* it found none.
FindTable(p) ==
    /\ priming[p].at = "table"
    /\ priming' = [priming EXCEPT ![p].at = IF table = "none" THEN "publish" ELSE "ident",
                                  ![p].base = IF table = "none" THEN "ours" ELSE table]
    /\ UNCHANGED <<word, nodes, table, ident, ticking, inits>>

PublishTable(p) ==
    /\ Goes(p, "publish", "ident") /\ table' = "ours"
    /\ UNCHANGED <<word, nodes, ident, ticking, inits>>

\* What if the identity were written only by the thread that published the table?
PrimeIdentOnce(p) ==
    /\ priming[p].at = "ident"
    /\ ident' = IF priming[p].base = "ours" THEN {"ours"} ELSE ident
    /\ ticking' = TRUE
    /\ priming' = IF p = Ticker THEN [priming EXCEPT ![p] = Out] ELSE [priming EXCEPT ![p].at = "read"]
    /\ UNCHANGED <<word, nodes, table, inits>>

\* The identity goes into the table found a step or two ago.  After its first priming a
\* guest thread starts the ticker, once; then the library's own code runs.
PrimeIdent(p) ==
    /\ priming[p].at = "ident"
    /\ ident' = ident \cup {priming[p].base}
    /\ ticking' = TRUE
    /\ priming' = IF p = Ticker THEN [priming EXCEPT ![p] = Out] ELSE [priming EXCEPT ![p].at = "read"]
    /\ UNCHANGED <<word, nodes, table, inits>>

\* The accessor's own code: state, node count, node record.
Read(p) ==
    /\ priming[p].at = "read"
    /\ priming' = [priming EXCEPT ![p] = Out]
    /\ UNCHANGED <<word, nodes, table, ident, ticking, inits>>

\* The library's init: its globals say "no board", and its table is a fresh one.
LibraryInit ==
    /\ inits < MaxInits
    /\ word' = 0 /\ nodes' = 0 /\ table' = "game"
    /\ ident' = ident \ {"game"}
    /\ inits' = inits + 1
    /\ priming' = [p \in Primer |-> [priming[p] EXCEPT !.clean = FALSE]]
    /\ UNCHANGED ticking

PrimeStep(p) == \/ PrimeWord(p) \/ PrimeNodes(p) \/ FindTable(p)
                \/ PublishTable(p) \/ PrimeIdent(p)

IoNext == (\E p \in Primer : Prime(p) \/ PrimeStep(p) \/ Read(p)) \/ LibraryInit

\* Types: the three words the library reads, and where each priming is.
IoTyped ==
    /\ word \in {0, 2} /\ nodes \in {0, 1} /\ table \in {"none", "ours", "game"}
    /\ ident \subseteq {"ours", "game"} /\ ticking \in BOOLEAN /\ inits \in 0 .. MaxInits
    /\ priming \in [Primer -> [at : {"out", "word", "nodes", "table", "publish", "ident", "read"},
                               base : {"none", "ours", "game"}, clean : BOOLEAN]]

Up == word = 2 /\ nodes = 1 /\ table \in ident

\* What an accessor's own code finds: a board that is up, whichever thread
\* published the table, unless the library's init ran in the middle of a priming
\* that is still under way.
AccessorFindsBoard ==
    (\A q \in Primer : priming[q].at # "out" => priming[q].clean)
        => \A p \in Asker : priming[p].at = "read" => Up

\* The direct readers, seventy-odd, have no priming of their own: once the game
\* has asked, the board is up in the end and stays so, however often the init
\* took it down.
BoardStaysUp == ticking ~> []Up
=============================================================================
