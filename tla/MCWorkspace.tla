---------------------------- MODULE MCWorkspace ----------------------------
EXTENDS Workspace, TLC

(* Each area has two pages of its kind and a page to leave it for.           *)
MCTours ==
  [stations |-> {Path("vs", 0), Path("vs", 1), Path("vs", 2), Path("", 0)},
   trips |-> {Path("trajets", 0), Path("trajets", 1), Path("trajets/new", 1)},
   event |-> {Path("parametres", 0), Path("parametres?tab=roadbook", 0),
              Path("parametres?tab=donnees", 0)},
   csv |-> {Path("benevoles", 0), Path("import", 0)}]
MCPaths == (UNION {MCTours[s] : s \in DOMAIN MCTours}) \cup {Path("trajets", 2)}

(* Names are compared with each other only.                                  *)
NameSymmetry == Permutations(Names)

(* Two stations, one leg without a cell, a need of volunteer 1.              *)
MCLegs ==
  [drive |-> <<1, 2>> :> 1 @@ <<2, 1>> :> 2 @@ <<1, 1>> :> -1 @@ <<2, 2>> :> -1,
   walk |-> <<1, 2>> :> 2 @@ <<2, 1>> :> -1 @@ <<1, 1>> :> -1 @@ <<2, 2>> :> -1]
MCNeeds == <<[from |-> 1, to |-> 2, vol |-> 1, from_time |-> 0, to_time |-> 2]>>
MCStoredTrips ==
  <<[mode |-> "drive", crew |-> TRUE,
     stops |-> <<EditorStop(1, 0, "auto", {1}, {}), EditorStop(2, 2, "manual", {2}, {1}),
                 EditorStop(1, 1, "auto", {}, {})>>],
    NoTrip>>

(* A first start, and an event with every block of its settings filled.      *)
MCStoredEvents ==
  {NoEvent, [name |-> 1, coordinator |-> 1, roadbook |-> 1, backup |-> 1, logo |-> 0, region |-> 1]}

(* A file of three rows: by name new, ambiguous, faulty; by email known,     *)
(* without an address, faulty.                                               *)
MCMatches == [name |-> <<0, 2, 0>>, email |-> <<1, -1, 0>>]
=============================================================================
