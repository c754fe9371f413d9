---------------------------- MODULE MCClientParts ---------------------------
EXTENDS ClientParts

Routes == INSTANCE ClientRoutes

(* One request may be for any route of the client, the others add or delete. *)
MCServed ==
  [r \in Requests |->
     IF r = "r1" THEN Routes!AllRoutes
     ELSE {x \in Routes!AllRoutes : \E n \in DOMAIN x.steps : x.steps[n].do \in {"look", "add", "limit"}}]

MCPlaces == {<<"sonarr", 1>>, <<"sonarr", 2>>}

MCInstances == [lidarr |-> 0, radarr |-> 0, readarr |-> 0, sonarr |-> 2]

Item(d, size, media, status) == [id |-> d, size |-> size, media |-> media, status |-> status]
MCQueues ==
  {<<>>,
   <<Item("", "s1", "m1", "stuck"), Item("", "s2", "m1", "downloading"), Item("d", "s2", "m1", "downloading"),
     Item("d", "s3", "m1", "downloading")>>,
   <<Item("d", "s1", "m1", "waiting"), Item("e", "s1", "m1", "stuck")>>}

(* The variables of the part that moves tell the states apart: the others stay as they began, in one state. *)
Moving ==
  CASE part = "api" -> apiVars [] part = "store" -> storeVars [] part = "update" -> updateVars
    [] part = "checks" -> checkVars [] part = "queues" -> queueVars [] part = "plex" -> plexVars
    [] part = "cooldown" -> coolVars [] part = "fan" -> fanVars [] part = "commands" -> commandVars
MCView == <<part, Moving>>

MCKeyOf == [c \in Callers |-> IF c = "w3" THEN "k2" ELSE "k1"]
=============================================================================
