-------------------------------- MODULE Ota --------------------------------
(***************************************************************************)
(* The boot path and the firmware update of src/stm32l431.  main() checks  *)
(* that the store page holds a key, copies the ota area over the normal    *)
(* area when the page says so, asks the server for a newer image, and only *)
(* then starts the tasks.  The flash keeps its contents when the power     *)
(* fails between any two writes, and a write may fail.                     *)
(***************************************************************************)
EXTENDS Naturals

CONSTANTS
    Image,          \* firmware images, told apart by their hash
    Size,           \* Size[i] is the length of image i
    Shipped,        \* the image the board is shipped with
    Key,            \* the key pairs ecc_gen can draw
    ServerKey,      \* the one the images are signed with
    Erased,         \* what a field of an erased page reads as
    Empty,          \* the hash of no bytes
    Blank,          \* an erased area: no vectors to start from
    Part,           \* an area of which some words are not the image's
    MaxCuts,        \* bound on power failures
    MaxFaults       \* bound on failed writes

ASSUME OtaAssumption ==
    /\ Size \in [Image -> Nat \ {0}]
    /\ Shipped \in Image
    /\ ServerKey \in Key
    /\ Erased \notin Image \cup Key \cup Nat \cup {Empty}
    /\ {Empty, Blank, Part} \cap Image = {}
    /\ Part \notin {Blank, Empty, Erased}
    /\ MaxCuts \in Nat
    /\ MaxFaults \in Nat

VARIABLES
    page,           \* the store area, a store_t (sys_init.h)
    normal, ota,    \* what the normal and the ota area hold
    g_store,        \* the copy of the page in RAM
    pc,             \* where main() stands
    after,          \* where it goes on once the page is written
    remote,         \* the image the server offers
    cuts, faults    \* power failures and failed writes so far

areaVars == <<normal, ota>>
serverVars == <<remote, cuts, faults>>
otaVars == <<page, areaVars, g_store, pc, after, serverVars>>

\* len_normal and len_ota share a doubleword; key stands for key_pub,
\* key_pri and id, hash and key for all of their doublewords.
Store == [flag : {"generated", Erased},
          len_normal : Nat \cup {Erased},
          len_ota : Nat \cup {Erased},
          hash : Image \cup {Empty, Erased},
          key : Key \cup {Erased}]
ErasedStore == [flag |-> Erased, len_normal |-> Erased, len_ota |-> Erased,
                hash |-> Erased, key |-> Erased]
Content == Image \cup {Blank, Part}

Downloading == {"download", "fetch", "check"}
Moving == {"move", "copy", "finish"}
Storing == {"erase", "flag", "len", "hash", "key", "verify"}
Place == {"reset", "gen", "checklocal", "checkremote", "tasks", "halt", "dead"}
         \cup Downloading \cup Moving \cup Storing

OtaTypeOK ==
    /\ page \in Store
    /\ normal \in Content
    /\ ota \in Content
    /\ g_store \in Store
    /\ pc \in Place
    /\ after \in {"checklocal", "move", "reset"}
    /\ remote \in Image
    /\ cuts \in 0 .. MaxCuts
    /\ faults \in 0 .. MaxFaults

\* A board as it leaves the factory: an image, and an erased store page.
OtaInit ==
    /\ page = ErasedStore
    /\ normal = Shipped
    /\ ota = Blank
    /\ g_store = ErasedStore
    /\ pc = "reset"
    /\ after = "reset"
    /\ remote \in Image
    /\ cuts = 0
    /\ faults = 0

Goto(place) == pc' = place /\ UNCHANGED after
\* A write to the flash fails: the old contents, erased, stay.
Fails ==
    /\ faults < MaxFaults
    /\ faults' = faults + 1
    /\ UNCHANGED <<remote, cuts>>

\* sha3 over the first n bytes of an area: no area but the image itself has
\* the hash of an image.
HashOf(area, n) ==
    IF n = 0 THEN Empty
    ELSE IF area \in Image /\ Size[area] = n THEN area ELSE Part

-----------------------------------------------------------------------------
(* main() and ecc_gen *)

\* The vectors, main() and ecc_check are in the normal area (stm32l431.sct
\* keeps ota.c and what it calls out of it): the chip does not start when they
\* are erased; when only some words are wrong it either does not start or
\* runs as if they were whole.  ecc_check looks at the flag alone.
Boot ==
    /\ pc = "reset"
    /\ \/ /\ normal \notin Image
          /\ Goto("dead")
       \/ /\ normal # Blank
          /\ Goto(IF page.flag = "generated" THEN "checklocal" ELSE "gen")
    /\ g_store' = [ErasedStore EXCEPT !.flag = page.flag]
    /\ UNCHANGED <<page, areaVars, serverVars>>

\* A new key pair and an empty update record, written without a check.
EccGen ==
    /\ pc = "gen"
    /\ \E k \in Key :
          g_store' = [flag |-> "generated", len_normal |-> 0, len_ota |-> 0,
                      hash |-> Empty, key |-> k]
    /\ pc' = "erase"
    /\ after' = "checklocal"
    /\ UNCHANGED <<page, areaVars, serverVars>>

\* The random number generator fails: main() returns.
EccFail ==
    /\ pc = "gen"
    /\ Goto("halt")
    /\ Fails
    /\ UNCHANGED <<page, areaVars, g_store>>

-----------------------------------------------------------------------------
(* Writing the store page: erase it, program it in order, compare it.      *)

EraseStore ==
    /\ pc = "erase"
    /\ page' = ErasedStore
    /\ Goto("flag")
    /\ UNCHANGED <<areaVars, g_store, serverVars>>

\* The page with the field named u programmed from g_store.
Programmed(u) ==
    CASE u = "flag" -> [page EXCEPT !.flag = g_store.flag]
      [] u = "len" -> [page EXCEPT !.len_normal = g_store.len_normal,
                                   !.len_ota = g_store.len_ota]
      [] u = "hash" -> [page EXCEPT !.hash = g_store.hash]
      [] u = "key" -> [page EXCEPT !.key = g_store.key]

\* After its last field the page is compared with g_store, but in ecc_gen.
NextField(u) ==
    CASE u = "flag" -> "len"
      [] u = "len" -> "hash"
      [] u = "hash" -> "key"
      [] u = "key" -> IF after = "checklocal" THEN after ELSE "verify"

ProgramStore ==
    /\ pc \in {"flag", "len", "hash", "key"}
    /\ \/ page' = Programmed(pc) /\ UNCHANGED serverVars
       \/ page' = page /\ Fails
    /\ Goto(NextField(pc))
    /\ UNCHANGED <<areaVars, g_store>>

VerifyStore ==
    /\ pc = "verify"
    /\ Goto(IF page # g_store THEN "erase" ELSE after)
    /\ UNCHANGED <<page, areaVars, g_store, serverVars>>

-----------------------------------------------------------------------------
(* The update *)

\* A mutant of Stale: the hash is not compared.
StaleLength == page.len_normal # page.len_ota
\* What ota_checklocal asks: lengths differ, or the normal area is not what
\* the page says.
Stale == \/ page.len_normal # page.len_ota
         \/ HashOf(normal, page.len_normal) # page.hash

\* Both lengths erased are equal, and the hash over 0xffffffff bytes leaves
\* the flash: the chip faults, at every start.
CheckLocal ==
    /\ pc = "checklocal"
    /\ g_store' = page
    /\ Goto(IF page.len_normal = Erased /\ page.len_ota = Erased THEN "dead"
            ELSE IF Stale THEN "move" ELSE "checkremote")
    /\ UNCHANGED <<page, areaVars, serverVars>>

\* ota_checkremote: the signature is verified with the key of the page.
CheckRemote ==
    /\ pc = "checkremote"
    /\ g_store' = [g_store EXCEPT !.len_ota = Size[remote], !.hash = remote]
    /\ Goto(IF /\ page.len_ota = Size[remote]
               /\ page.hash = remote
               /\ page.key = ServerKey
            THEN "tasks" ELSE "download")
    /\ UNCHANGED <<page, areaVars, serverVars>>

\* ota_download erases the ota area,
Download ==
    /\ pc = "download"
    /\ ota' = Blank
    /\ Goto("fetch")
    /\ UNCHANGED <<page, normal, g_store, serverVars>>

\* writes the image that was announced,
Fetch ==
    /\ pc = "fetch"
    /\ \/ ota' = g_store.hash /\ UNCHANGED serverVars
       \/ ota' = Part /\ Fails
    /\ Goto("check")
    /\ UNCHANGED <<page, normal, g_store>>

\* A mutant of Whole: the download is not checked.
WholeAlways == TRUE
Whole == HashOf(ota, g_store.len_ota) = g_store.hash

\* and stores its length and hash when it is whole.
CheckDownload ==
    /\ pc = "check"
    /\ IF Whole
       THEN pc' = "erase" /\ after' = "move"
       ELSE Goto("download")
    /\ UNCHANGED <<page, areaVars, g_store, serverVars>>

\* ota_move erases as much of the normal area as the new image takes,
Move ==
    /\ pc = "move"
    /\ normal' = IF g_store.len_ota = 0 THEN normal ELSE Blank
    /\ Goto("copy")
    /\ UNCHANGED <<page, ota, g_store, serverVars>>

\* copies the first words,
Copy ==
    /\ pc = "copy"
    /\ normal' = IF g_store.len_ota = 0 THEN normal ELSE Part
    /\ Goto("finish")
    /\ UNCHANGED <<page, ota, g_store, serverVars>>

\* and the rest.  The check of the copy is commented out: the page is
\* written as if it were good, and the chip is reset.
Finish ==
    /\ pc = "finish"
    /\ \/ /\ normal' = IF g_store.len_ota = 0 THEN normal
                       ELSE IF ota \in Image THEN ota ELSE Part
          /\ UNCHANGED serverVars
       \/ normal' = normal /\ Fails
    /\ g_store' = [g_store EXCEPT !.len_normal = g_store.len_ota]
    /\ pc' = "erase"
    /\ after' = "reset"
    /\ UNCHANGED <<page, ota>>

OtaStep ==
    \/ Boot \/ EccGen \/ EccFail
    \/ EraseStore \/ ProgramStore \/ VerifyStore
    \/ CheckLocal \/ CheckRemote
    \/ Download \/ Fetch \/ CheckDownload
    \/ Move \/ Copy \/ Finish

-----------------------------------------------------------------------------
(* What happens to the board *)

\* RAM is lost, the flash is as far as it was.
PowerLoss ==
    /\ pc \notin {"reset", "dead"}
    /\ cuts < MaxCuts
    /\ cuts' = cuts + 1
    /\ g_store' = ErasedStore
    /\ pc' = "reset"
    /\ after' = "reset"
    /\ UNCHANGED <<page, areaVars, remote, faults>>

\* The server offers another image.  One that was announced to the board
\* stays available to it.
Publish ==
    /\ pc = "reset"
    /\ remote' \in Image \ {remote}
    /\ UNCHANGED <<page, areaVars, g_store, pc, after, cuts, faults>>

-----------------------------------------------------------------------------
(* Properties *)

\* The only copy is never erased: when ota_move (ota.c:111-119) erases the
\* normal area, the ota area holds a whole image of that length, whatever
\* page torn by a power failure it was decided from.
MoveSource ==
    pc \in Moving /\ g_store.len_ota # 0 =>
        ota \in Image /\ Size[ota] = g_store.len_ota

\* Whenever the page names a length, that image is whole in one of the two
\* areas (ota.c:91, 131): in the ota area or, the move done, in the normal one.
Recoverable ==
    page.len_ota \notin {0, Erased} =>
        \/ /\ ota \in Image
           /\ Size[ota] = page.len_ota
           /\ page.hash \in {ota, Erased}
        \/ /\ normal \in Image
           /\ normal = page.hash
           /\ page.len_normal = page.len_ota

\* Everything outside ota_move keeps the image the chip starts from, so a
\* power failure there finds it whole.  It may be damaged only by a failed
\* write that a torn page then made the board forget: ecc_gen stores length 0.
StartsAgain ==
    /\ \/ pc \in {"checkremote", "tasks"} \cup Downloading
       \/ pc \in Storing /\ after = "move"
    /\ g_store.len_normal # 0 \/ faults = 0
    => normal \in Image

\* ota.c:27 "OTA_LATEST-already latest,OTA_UPDATE-need update": no image is
\* downloaded that the page already records as moved to the normal area.
NoNeedlessUpdate ==
    pc = "download" =>
        ~ /\ page.hash = remote
          /\ page.len_ota = Size[remote]
          /\ page.len_normal = page.len_ota
=============================================================================
