---------------------------- MODULE FileTable64 -----------------------------
(***************************************************************************)
(* Which file a handle stands for: the table --trace-files keeps           *)
(* (src/src/runtime64/dispatch64.c).  The kernel hands out handle values   *)
(* and takes them back; the table only ever sees opens.  A thread inside   *)
(* an open is at one of the writes of ft_record, which other threads'      *)
(* opens and lookups come between.                                         *)
(***************************************************************************)
EXTENDS Integers, Sequences, FiniteSets, FiniteSetsExt

CONSTANTS
    Thread,    \* guest threads
    Path,      \* files the game opens
    Handle,    \* handle values the kernel uses
    FtMax,     \* FT_MAX
    MaxOpens   \* bound: opens of a whole run

ASSUME FileTableAssumption ==
    FtMax \in Nat \ {0} /\ MaxOpens \in Nat /\ Handle \subseteq Nat \ {0}

VARIABLES
    named,    \* what the kernel has open: a partial function Handle -> Path
    ft,       \* g_ft: [1 .. FtMax -> [h, path]]
    ftn,      \* g_ftn, which counts the opens that found no slot as well
    opening   \* where each thread is in an open: [at, h, path, i]

ftVars == <<named, ft, ftn, opening>>

NoFile == "none"
Blank  == [h |-> 0, path |-> NoFile]
Closed == [at |-> "out", h |-> 0, path |-> NoFile, i |-> 0]

FtInit ==
    /\ named = <<>>
    /\ ft = [i \in 1 .. FtMax |-> Blank]
    /\ ftn = 0
    /\ opening = [t \in Thread |-> Closed]

Opens == ftn + Cardinality({t \in Thread : opening[t].at = "claim"})

\* The forwarded CreateFile: any value that is not in use, recycled ones too.
NativeOpen(t, p) ==
    /\ opening[t] = Closed /\ Opens < MaxOpens
    /\ \E h \in Handle \ DOMAIN named :
          /\ named' = [g \in DOMAIN named \cup {h} |-> IF g = h THEN p ELSE named[g]]
          /\ opening' = [opening EXCEPT ![t] = [at |-> "claim", h |-> h, path |-> p, i |-> 0]]
    /\ UNCHANGED <<ft, ftn>>

\* ft_record takes a slot; past the end the open is simply not recorded.
ClaimSlot(t) ==
    /\ opening[t].at = "claim"
    /\ ftn' = ftn + 1
    /\ opening' = [opening EXCEPT ![t] = IF ftn >= FtMax THEN Closed
                                         ELSE [@ EXCEPT !.at = "store", !.i = ftn + 1]]
    /\ UNCHANGED <<named, ft>>

\* Handle and path; nobody can ask for that value before the open returns.
StoreSlot(t) ==
    /\ opening[t].at = "store"
    /\ ft' = [ft EXCEPT ![opening[t].i] = [h |-> opening[t].h, path |-> opening[t].path]]
    /\ opening' = [opening EXCEPT ![t] = Closed]
    /\ UNCHANGED <<named, ftn>>

\* The handles the game has: the ones whose open has returned to it.
Held == DOMAIN named \ {opening[t].h : t \in Thread}

\* CloseHandle is forwarded and not looked at.
NativeClose(h) ==
    /\ h \in Held
    /\ named' = [g \in DOMAIN named \ {h} |-> named[g]]
    /\ UNCHANGED <<ft, ftn, opening>>

\* ft_find: the newest slot that holds the value, 0 when none does.
Slots(h) == {i \in 1 .. FtMax : i <= ftn /\ ft[i].h = h}

\* What if the table were searched from its start?
FtFindOldest(h) == IF Slots(h) = {} THEN 0 ELSE Min(Slots(h))

FtFind(h) == IF Slots(h) = {} THEN 0 ELSE Max(Slots(h))

\* Types: handles are the kernel's, indices the table's; only the count outgrows it.
FtTyped ==
    /\ DOMAIN named \subseteq Handle /\ \A h \in DOMAIN named : named[h] \in Path
    /\ ft \in [1 .. FtMax -> [h : Handle \cup {0}, path : Path \cup {NoFile}]]
    /\ ftn \in Nat
    /\ opening \in [Thread -> [at : {"out", "claim", "store"}, h : Handle \cup {0},
                               path : Path \cup {NoFile}, i : 0 .. FtMax]]

FtNext(t) ==
    \/ \E p \in Path : NativeOpen(t, p)
    \/ ClaimSlot(t) \/ StoreSlot(t)

\* A read, write or size of a handle is put down to the file the game has open
\* under it, although values are recycled, slots are never freed and other
\* threads are in the middle of recording theirs; only an overflowed table may
\* miss it.
ReadsNamedRight ==
    ftn <= FtMax => \A h \in Held : FtFind(h) # 0 /\ ft[FtFind(h)].path = named[h]
=============================================================================
