---------------------------- MODULE LocationForm ----------------------------
(***************************************************************************)
(* One address of a shipment, from the three dependent lists of the form   *)
(* (country, then state, then city) through what the form lets through to  *)
(* what the server makes of it, and back into the form that amends it.     *)
(* Both sides go by one catalogue, which the server serves.                *)
(*                                                                         *)
(* Codes are chosen from lists and so need no normalisation; a city is     *)
(* known by its name, spelt in one way.  The form's other fields are taken *)
(* to be filled in.                                                        *)
(***************************************************************************)
CONSTANTS
  NULL,          \* nothing chosen, nothing typed, nothing recorded
  Countries,     \* the countries of the catalogue
  Subdivisions,  \* per country, its states; some countries have none
  Curated,       \* the <<country, state, city>> the catalogue suggests
  Names          \* the names one may type

VARIABLES
  shipment,   \* the recorded address: its text, and the location resolved
  mode,       \* the dialog that is open: "create", "amend", or "closed"
  draft,      \* the address in the dialog
  refused     \* whether the server refused the last submission

vars == <<shipment, mode, draft, refused>>

-----------------------------------------------------------------------------
(* The catalogue.                                                          *)

HasSubdivisions(country) == Subdivisions[country] # {}

(* A country with states has cities only below them.                       *)
CitiesFor(country, state) == {city \in Names : <<country, state, city>> \in Curated}

-----------------------------------------------------------------------------
(* The server.                                                             *)

(* NULL stands for a list of issues.  Whether the city is a curated one is *)
(* noted and never a reason to refuse.                                     *)
ResolveLocation(input) ==
  IF \/ input.country = NULL
     \/ HasSubdivisions(input.country) /\ input.state \notin Subdivisions[input.country]
     \/ ~HasSubdivisions(input.country) /\ input.state # NULL
    THEN NULL
    ELSE [city |-> input.city, country |-> input.country, state |-> input.state,
          curated |-> input.city \in CitiesFor(input.country, input.state)]

(* A creation may also name its address in free text, as imports do.       *)
ResolveAddress(input) ==
  LET location == ResolveLocation(input)
  IN  IF input \in Names THEN [text |-> input, location |-> NULL]
      ELSE IF location = NULL THEN NULL
      ELSE [text |-> location, location |-> location]

-----------------------------------------------------------------------------
(* The three lists.                                                        *)

EmptyLocation == [city |-> NULL, country |-> NULL, state |-> NULL, custom |-> FALSE]

Offered == IF draft.country = NULL THEN {} ELSE CitiesFor(draft.country, draft.state)

StateDisabled == draft.country = NULL \/ ~HasSubdivisions(draft.country)

CityDisabled ==
  \/ draft.country = NULL
  \/ HasSubdivisions(draft.country) /\ draft.state = NULL

UsingCustomCity ==
  \/ draft.custom
  \/ draft.city # NULL /\ draft.city \notin Offered

Change(new) ==
  /\ mode # "closed"
  /\ draft' = new
  /\ UNCHANGED <<shipment, mode, refused>>

(* A state that still belongs is kept; the city is, if the state did not   *)
(* change.                                                                 *)
SetCountry(country) ==
  LET belongs == country # NULL /\ draft.state \in Subdivisions[country]
      state   == IF belongs THEN draft.state ELSE NULL
      same    == state = draft.state
  IN  Change([country |-> country, state |-> state,
              city    |-> IF same THEN draft.city ELSE NULL,
              custom  |-> same /\ draft.custom])

SetState(state) ==
  LET keep == state # NULL /\ draft.city \in CitiesFor(draft.country, state)
  IN  /\ ~StateDisabled
      /\ Change([draft EXCEPT !.state = state,
                   !.city = IF keep THEN @ ELSE NULL, !.custom = keep /\ @])

SetCity(city) ==
  /\ ~CityDisabled
  /\ Change([draft EXCEPT !.city = city, !.custom = FALSE])

SetOtherCity ==
  /\ ~CityDisabled
  /\ Change([draft EXCEPT !.city = NULL, !.custom = TRUE])

TypeCity(name) ==
  /\ UsingCustomCity /\ ~CityDisabled
  /\ Change([draft EXCEPT !.city = name, !.custom = TRUE])

Select ==
  \/ \E country \in Countries \cup {NULL} : SetCountry(country)
  \/ \E state \in (IF StateDisabled THEN {} ELSE Subdivisions[draft.country] \cup {NULL}) :
       SetState(state)
  \/ \E city \in Offered \cup {NULL} : SetCity(city)
  \/ SetOtherCity
  \/ \E name \in Names \cup {NULL} : TypeCity(name)

-----------------------------------------------------------------------------
(* The dialog.                                                             *)

(* What the dialog starts from: of an address in free text, the text as    *)
(* the city.                                                               *)
LocationFromShipment ==
  IF shipment.location = NULL THEN [EmptyLocation EXCEPT !.city = shipment.text, !.custom = TRUE]
  ELSE [city |-> shipment.location.city, country |-> shipment.location.country,
        state |-> shipment.location.state,
        custom |-> ~shipment.location.curated /\ shipment.location.city # NULL]

OpenDialog ==
  /\ mode = "closed"
  /\ IF shipment = NULL THEN mode' = "create" /\ draft' = EmptyLocation
     ELSE mode' = "amend" /\ draft' = LocationFromShipment
  /\ refused' = FALSE
  /\ UNCHANGED shipment

(* A creation needs a city and a country.  (A state would be needed if the *)
(* draft said that one is required, which nothing ever sets.)              *)
ValidForm == draft.city # NULL /\ draft.country # NULL

ChangedFields ==
  /\ draft.city # NULL /\ draft.country # NULL
  /\ LET before == LocationFromShipment
     IN  \/ draft.city # before.city
         \/ draft.country # before.country
         \/ draft.state # before.state

Submittable ==
  IF mode = "create" THEN ValidForm ELSE mode = "amend" /\ ChangedFields

(* The dialog closes when the command is accepted, and stays otherwise.    *)
Submit ==
  /\ Submittable
  /\ LET address == ResolveAddress(draft)
     IN  /\ refused' = (address = NULL)
         /\ shipment' = IF address = NULL THEN shipment ELSE address
         /\ mode' = IF address = NULL THEN mode ELSE "closed"
  /\ UNCHANGED draft

Close == mode # "closed" /\ mode' = "closed" /\ UNCHANGED <<shipment, draft, refused>>

(* No shipment yet, or one that was imported.                              *)
Init ==
  /\ shipment \in {NULL} \cup {ResolveAddress(name) : name \in Names}
  /\ mode = "closed" /\ draft = EmptyLocation /\ refused = FALSE

Next == OpenDialog \/ Select \/ Submit \/ Close

Spec == Init /\ [][Next]_vars

-----------------------------------------------------------------------------
(* "An invalid combination is not merely rejected, it is unreachable":     *)
(* whatever was chosen before and in whatever order, a creation the form   *)
(* would send is one the server takes.                                     *)
InvalidIsUnreachable ==
  mode = "create" /\ Submittable => ResolveAddress(draft) # NULL
=============================================================================
