----------------------------- MODULE CardReader -----------------------------
(***************************************************************************)
(* The IC card reader and the card on it (card.c): what the MIFARE         *)
(* commands may touch, the file the card is kept in, and the player who    *)
(* taps the card on the reader.                                            *)
(*                                                                         *)
(* A command runs on a game thread with the port locked, so it is one step *)
(* but for card_save(): that is two, because the power may go between      *)
(* fopen(), which empties the file, and the fwrite() that fills it.  A tap *)
(* comes from the input thread or from the window's, without the lock.     *)
(*                                                                         *)
(* A command that is refused changes nothing and has no action; neither    *)
(* have the PN53x commands that only answer.                               *)
(***************************************************************************)
EXTENDS Integers

CONSTANTS
    Sectors,      \* 16
    PerSector,    \* 4 blocks to a sector
    Uid,          \* the numbers ES3_CARD_UID may give
    Datum,        \* what the game writes
    Zero,         \* an empty block
    Trailer,      \* what card_format() puts in the last block of a sector
    Dwell,        \* CARD_DWELL_MS, in ticks
    MaxBoots,     \* how often the game is started
    Faults,       \* of "read", "open", "short" and "cut": what may go wrong
    Absent,       \* no file
    Short,        \* a file that is not CARD_BYTES long
    None

Block == 0 .. Sectors * PerSector - 1
Content == Uid \cup Datum \cup {Zero, Trailer}
Image == [Block -> Content]

ASSUME CardAssumption ==
    /\ Sectors \in Nat \ {0} /\ PerSector \in Nat \ {0, 1}
    /\ Dwell \in Nat \ {0} /\ MaxBoots \in Nat
    /\ Faults \subseteq {"read", "open", "short", "cut"}
    /\ Absent \notin Image /\ Short \notin Image /\ Absent # Short
    /\ None \notin 0 .. Sectors - 1 /\ None \notin Content

VARIABLES
    file,       \* the card image on disk
    up,         \* does the game run?
    boots,      \* how often it was started
    card, uid,  \* g_card and g_uid
    dirty,      \* g_card_dirty
    saving,     \* card_save(): "no", "begun" or "opened"
    unread,     \* is there a whole image on disk that this boot could not read?
    auth,       \* g_auth_sector, None for -1
    field,      \* the ticks until g_present_until
    acked,      \* what the game was told is in each block it wrote
    granted,    \* the sector authenticated since the card was last selected
    touched     \* the last block command that worked: [sector, granted]

fileVars == <<file, up, boots, dirty, saving, unread>>
cardVars == <<card, uid, acked>>
authVars == <<auth, granted, touched>>
vars     == <<fileVars, cardVars, authVars, field>>

SectorOf(b) == b \div PerSector

\* card_format(): the number in block 0, the key in every trailer.
Format(u) == [b \in Block |-> IF b % PerSector = PerSector - 1 THEN Trailer
                              ELSE IF b = 0 THEN u ELSE Zero]

Blank == [b \in Block |-> None]

Init == /\ file = Absent /\ up = FALSE /\ boots = 0
        /\ card \in {Format(u) : u \in Uid} /\ uid = card[0]
        /\ dirty = FALSE /\ saving = "no" /\ unread = FALSE
        /\ auth = None /\ granted = None /\ touched = None
        /\ field = 0 /\ acked = Blank
-----------------------------------------------------------------------------
(***************************************************************************)
(* The file.                                                               *)
(***************************************************************************)

\* card_load() with a whole image it can read: the image is the card, its number
\* included.
LoadImage ==
    /\ file \in Image
    /\ card' = file /\ uid' = file[0]
    /\ dirty' = FALSE /\ saving' = "no" /\ unread' = FALSE

\* card_load() with no file, with one that is short, or with an image fopen() or
\* fread() fails on: a new card with the number the environment gives, saved at
\* once.
NewCard(u) ==
    /\ file \in Image => "read" \in Faults
    /\ card' = Format(u) /\ uid' = u
    /\ dirty' = TRUE /\ saving' = "begun" /\ unread' = (file \in Image)

StartGame ==
    /\ ~up /\ boots < MaxBoots
    /\ up' = TRUE /\ boots' = boots + 1
    /\ auth' = None /\ granted' = None /\ touched' = None
    /\ field' = 0
    /\ UNCHANGED <<file, acked>>

\* What if the number in the environment outlived the one in the image?
BootKeepingUid(u) ==
    /\ StartGame
    /\ \/ /\ file \in Image /\ card' = file /\ uid' = u
          /\ dirty' = FALSE /\ saving' = "no" /\ unread' = FALSE
       \/ NewCard(u)

\* es3_card_open() for the first time.
Boot(u) == StartGame /\ (LoadImage \/ NewCard(u))

\* card_save() returns, and the game is told that its write worked.
Acknowledge ==
    /\ saving' = "no"
    /\ acked' = [b \in Block |-> IF card[b] \in Datum THEN card[b] ELSE acked[b]]
    /\ UNCHANGED <<card, uid>>

EmptyFile == /\ file' = Short /\ saving' = "opened" /\ unread' = FALSE
             /\ UNCHANGED <<dirty, cardVars>>

\* What if a file that cannot be opened counted as saved?
SaveOpenForgetting ==
    /\ saving = "begun"
    /\ \/ EmptyFile
       \/ "open" \in Faults /\ Acknowledge /\ dirty' = FALSE /\ UNCHANGED <<file, unread>>
    /\ UNCHANGED <<up, boots, authVars, field>>

\* card_save(), fopen(..., "wb"): empties the file, or fails and leaves it.
SaveOpen ==
    /\ saving = "begun"
    /\ \/ EmptyFile
       \/ "open" \in Faults /\ Acknowledge /\ UNCHANGED <<file, dirty, unread>>
    /\ UNCHANGED <<up, boots, authVars, field>>

\* card_save(), fwrite() and fclose(), whose results nobody looks at.
SaveWrite ==
    /\ saving = "opened"
    /\ \/ file' = card
       \/ "short" \in Faults /\ UNCHANGED file
    /\ dirty' = FALSE
    /\ Acknowledge
    /\ UNCHANGED <<up, boots, unread, authVars, field>>

\* "An arcade cabinet is turned off at the wall, and this one is closed with a
\* window button."
PowerCut ==
    /\ up /\ boots < MaxBoots
    /\ saving = "no" \/ "cut" \in Faults
    /\ up' = FALSE /\ saving' = "no"
    /\ auth' = None /\ granted' = None /\ touched' = None
    /\ field' = 0
    /\ UNCHANGED <<file, boots, dirty, unread, cardVars>>
-----------------------------------------------------------------------------
(***************************************************************************)
(* The commands.                                                           *)
(***************************************************************************)
Listens == up /\ saving = "no"

InField == field > 0

\* What if a fresh select left the authentication in place?
SelectKeepingAuth ==
    /\ Listens /\ InField
    /\ granted' = None
    /\ UNCHANGED <<fileVars, cardVars, auth, touched, field>>

\* command() 0x4A with a card in the field: "a fresh select".
Select ==
    /\ Listens /\ InField
    /\ auth' = None /\ granted' = None
    /\ UNCHANGED <<fileVars, cardVars, touched, field>>

\* command() 0x52, a card in the field or not.
Release ==
    /\ Listens
    /\ auth' = None /\ granted' = None
    /\ UNCHANGED <<fileVars, cardVars, touched, field>>

\* mifare() 0x60 and 0x61: any key will do.
Authenticate(b) ==
    /\ Listens /\ InField
    /\ auth' = SectorOf(b) /\ granted' = auth'
    /\ UNCHANGED <<fileVars, cardVars, touched, field>>

Touches(b) == /\ Listens /\ InField
              /\ auth = SectorOf(b)
              /\ touched' = [sector |-> SectorOf(b), granted |-> granted]
              /\ UNCHANGED <<auth, granted, field>>

\* mifare() 0x30.
ReadBlock(b) == Touches(b) /\ UNCHANGED <<fileVars, cardVars>>

\* mifare() 0xA0: block 0 is read-only and answers like any other.
WriteBlock(b, d) ==
    /\ Touches(b)
    /\ IF b = 0 THEN UNCHANGED <<dirty, saving, card>>
       ELSE /\ card' = [card EXCEPT ![b] = d]
            /\ dirty' = TRUE /\ saving' = "begun"
    /\ UNCHANGED <<file, up, boots, unread, uid, acked>>
-----------------------------------------------------------------------------
(***************************************************************************)
(* The player.                                                             *)
(***************************************************************************)

\* es3_card_tap(): from now on for CARD_DWELL_MS, whatever was left.
Tap == /\ up
       /\ field' = Dwell
       /\ UNCHANGED <<fileVars, cardVars, authVars>>

\* Time passes; at zero the card is off the reader.
Elapse == /\ field > 0
          /\ field' = field - 1
          /\ UNCHANGED <<fileVars, cardVars, authVars>>

Next == \/ \E u \in Uid : Boot(u)
        \/ SaveOpen \/ SaveWrite \/ PowerCut
        \/ Select \/ Release
        \/ \E b \in Block : Authenticate(b) \/ ReadBlock(b)
        \/ \E b \in Block, d \in Datum : WriteBlock(b, d)
        \/ Tap \/ Elapse

Spec == Init /\ [][Next]_vars
-----------------------------------------------------------------------------
(***************************************************************************)
(* Type invariant of the reader (card.c g_card, g_uid, g_auth_sector,      *)
(* g_present_until): a tap never keeps the card longer than CARD_DWELL_MS. *)
(***************************************************************************)
TypeOK ==
    /\ file \in Image \cup {Absent, Short} /\ up \in BOOLEAN
    /\ boots \in 0 .. MaxBoots
    /\ card \in Image /\ uid \in Content /\ {dirty, unread} \subseteq BOOLEAN
    /\ saving \in {"no", "begun", "opened"}
    /\ {auth, granted} \subseteq (0 .. Sectors - 1) \cup {None}
    /\ field \in 0 .. Dwell
    /\ acked \in [Block -> Datum \cup {None}]

(***************************************************************************)
(* The number the reader announces is the one on the card, and on disk     *)
(* unless this boot found an image it could not read and has not written   *)
(* over it since: over any number of boots, with any ES3_CARD_UID,         *)
(* whatever blocks the game writes (card_load: "the image owns the UID";   *)
(* mifare: "block 0 is read-only").                                        *)
(***************************************************************************)
UidAgrees == up => /\ uid = card[0]
                   /\ file \in Image => file[0] = uid \/ unread

(***************************************************************************)
(* "The file is the card" (card_load): between two commands a whole file   *)
(* holds what the reader answers from, or the reader knows that it does    *)
(* not and its next save writes all of it, through power cuts, images that *)
(* cannot be read, failed opens and writes the disk refuses.               *)
(***************************************************************************)
FileIsCard == Listens /\ ~dirty => file = card \/ file = Short

(***************************************************************************)
(* "MIFARE only lets a reader touch a sector it has authenticated" (above  *)
(* g_auth_sector): no block is read or written but in the sector last      *)
(* authenticated since the card was selected.                              *)
(***************************************************************************)
TouchedIsGranted == touched # None => touched.sector = touched.granted

(***************************************************************************)
(* "Written back as it changes rather than at exit: an arcade cabinet is   *)
(* turned off at the wall" (card_save): what the game was told it has      *)
(* written is on the card at every later boot.                             *)
(***************************************************************************)
WrittenIsKept ==
    Listens => \A b \in Block : acked[b] # None => card[b] = acked[b]
=============================================================================
