----------------------------- MODULE Playlists ------------------------------
(***************************************************************************)
(* The lists of radio stations (core/src/audio/RadioManager.cpp), which    *)
(* the radio view changes from the LVGL task, and the file they are kept   *)
(* in.  Every change ends with a save, which empties the file and writes   *)
(* all lists.  The write may fail, which is only logged, and the power may *)
(* be cut in it, or at any other time.  A boot reads what is there: a list *)
(* that is there in part keeps the values of its constructor for what was  *)
(* not read.                                                               *)
(*                                                                         *)
(* The file is modelled by the lists that are read from it.  A station is  *)
(* its address.  The card holds files of one list each, as export writes   *)
(* them.                                                                   *)
(***************************************************************************)
EXTENDS Naturals, Sequences, SequencesExt

CONSTANTS
  Urls,             \* the stations
  FirstStations,    \* those of the favourites when there is no file
  MaxLists          \* bound: the lists

ASSUME PlaylistsAssumption ==
  MaxLists \in Nat /\ FirstStations \in Seq(Urls)

VARIABLES
  lists,      \* m_playlists; none while the board is off
  flash,      \* the lists that would be read from the file
  powered     \* the board is on and has read them

playlistVars == <<lists, flash, powered>>

Fav == [kind |-> "fav", n |-> 0]
List(id, default, stations) == [id |-> id, default |-> default, stations |-> stations]
Defaults == <<List(Fav, TRUE, FirstStations)>>

\* Mutant of Parts: a list is constructed without an id.
PartsNoId(l) ==
  {List([kind |-> "pl", n |-> 0], FALSE, <<>>), List(l.id, FALSE, <<>>)}
    \cup {List(l.id, l.default, SubSeq(l.stations, 1, k)) : k \in 0..Len(l.stations)}

\* What is read of a list that is there in part: nothing, the id, or all but some of
\* the stations.  The constructor makes Favoritos.
Parts(l) ==
  {List(Fav, TRUE, <<>>), List(l.id, TRUE, <<>>)}
    \cup {List(l.id, l.default, SubSeq(l.stations, 1, k)) : k \in 0..Len(l.stations)}

\* What is read after a save of ls that was cut, or found no room.
Cuts(ls) ==
  {SubSeq(ls, 1, k) : k \in 0..Len(ls)}
    \cup UNION {{Append(SubSeq(ls, 1, k - 1), p) : p \in Parts(ls[k])} : k \in DOMAIN ls}
-----------------------------------------------------------------------------
\* The lists become ls, and are saved (savePlaylists, writeFile): well, or in vain,
\* when the file cannot be opened or is written in part, or until the power is cut.
Save(ls) ==
  \/ lists' = ls /\ flash' = ls /\ powered' = TRUE
  \/ lists' = ls /\ flash' \in {flash} \cup Cuts(ls) /\ powered' = TRUE
  \/ lists' = <<>> /\ flash' \in Cuts(ls) /\ powered' = FALSE

PowerCut ==
  /\ powered /\ powered' = FALSE
  /\ lists' = <<>> /\ UNCHANGED flash

InitPlaylists == lists = Defaults /\ flash = Defaults /\ powered = TRUE

\* loadPlaylists.
Boot ==
  /\ ~powered
  /\ IF flash = <<>> THEN Save(Defaults)
     ELSE lists' = flash /\ powered' = TRUE /\ UNCHANGED flash

First(id) == CHOOSE i \in DOMAIN lists :
  lists[i].id = id /\ \A j \in 1..(i - 1) : lists[j].id # id

\* createPlaylist; a list from the card (importPlaylistFromSd, importM3uFromSd).
Create ==
  /\ powered /\ Len(lists) < MaxLists
  /\ \/ Save(Append(lists, List([kind |-> "pl", n |-> Len(lists) + 1], FALSE, <<>>)))
     \/ \E kind \in {"imp", "m3u"}, u \in Urls :
          Save(Append(lists, List([kind |-> kind, n |-> Len(lists) + 1], FALSE, <<u>>)))

\* The view refuses a protected list; deletePlaylist takes the first with the id.
Delete ==
  \E i \in DOMAIN lists :
    /\ ~lists[i].default /\ ~lists[First(lists[i].id)].default
    /\ Save(RemoveAt(lists, First(lists[i].id)))

Changed(k, stations) == Save([lists EXCEPT ![k].stations = stations])

AddStation ==
  \E i \in DOMAIN lists, u \in Urls :
    LET k == First(lists[i].id)
    IN u \notin Range(lists[k].stations) /\ Changed(k, Append(lists[k].stations, u))

\* The view shows the stations of list i, and gives the place of one of them.
RemoveStation ==
  \E i \in DOMAIN lists : \E s \in DOMAIN lists[i].stations :
    LET k == First(lists[i].id)
    IN s <= Len(lists[k].stations) /\ Changed(k, RemoveAt(lists[k].stations, s))

NextPlaylists ==
  PowerCut \/ Boot \/ Create \/ Delete \/ AddStation \/ RemoveStation
SpecPlaylists == InitPlaylists /\ [][NextPlaylists]_playlistVars
-----------------------------------------------------------------------------
(* Properties *)

\* Every variable has the type of what it stands for.
PlaylistsTypeOK ==
  /\ powered \in BOOLEAN
  /\ \A ls \in {lists, flash} : \A i \in DOMAIN ls :
       /\ ls[i].id.kind \in {"fav", "pl", "imp", "m3u"} /\ ls[i].id.n \in 0..MaxLists
       /\ ls[i].default \in BOOLEAN /\ ls[i].stations \in Seq(Urls)

\* Whatever was done, and wherever the power was cut, the first list is Favoritos, and
\* protected: the view shows it when another is deleted, and takes it for the default
\* (the constructor of RadioPlaylist, deserializePlaylistsFromMsgPack, deletePlaylist).
FirstIsFavourites == powered => lists # <<>> /\ lists[1].id = Fav /\ lists[1].default

\* RadioManager.hpp:27: the id of a list is unique.
IdsUnique == \A i, j \in DOMAIN lists : lists[i].id = lists[j].id => i = j
=============================================================================
