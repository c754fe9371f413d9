---------------------------- MODULE StarrRoutes ----------------------------
(***************************************************************************)
(* What the handlers of the five Starr applications do, one entry for each *)
(* handler, under its name in the source (src/pkg/apps).  What a handler   *)
(* asks for and how it lays out the answer is left out.                    *)
(***************************************************************************)
EXTENDS ApiSteps

(* CheckAPIKey, then the number of the instance in handleAPI. *)
Keyed(table) == {[r EXCEPT !.steps = <<Refuse(401)>> \o @] : r \in {table[h] : h \in DOMAIN table}}
OfApp(table) == {[r EXCEPT !.steps = <<Refuse(401), Refuse(422)>> \o @] : r \in {table[h] : h \in DOMAIN table}}

-----------------------------------------------------------------------------
SonarrSeries ==
  [sonarrAddSeries          |-> Route(201, <<Decode, Refuse(422), Look(503), Add(500)>>),
   sonarrCheckSeries        |-> Ok(<<Look(503)>>),
   sonarrGetSeries          |-> Fetch(503),
   sonarrGetEpisodes        |-> Fetch(503),
   sonarrUnmonitorEpisode   |-> Ok(<<Write(503), Refuse(503)>>)]

SonarrCommands ==
  [sonarrTriggerSearchSeries |-> Order(503),
   sonarrTriggerCommand      |-> Ok(<<Decode, Command(503)>>),
   sonarrStatusCommand       |-> Ok(<<Refuse(503)>>),
   sonarrLangProfiles        |-> Fetch(500),
   sonarrGetQualityProfile   |-> Fetch(500),
   sonarrGetQualityProfiles  |-> Fetch(500)]

SonarrQualityProfiles ==
  [sonarrAddQualityProfile        |-> Change(500),
   sonarrUpdateQualityProfile     |-> Ok(<<Decode, Refuse(422), Write(500)>>),
   sonarrDeleteQualityProfile     |-> Ok(<<Refuse(400), Write(500)>>),
   sonarrDeleteAllQualityProfiles |-> Clear(500)]

SonarrReleaseProfiles ==
  [sonarrGetReleaseProfiles       |-> Fetch(500),
   sonarrAddReleaseProfile        |-> Change(500),
   sonarrUpdateReleaseProfile     |-> Ok(<<Decode, Refuse(422), Write(500)>>),
   sonarrDeleteReleaseProfile     |-> Ok(<<Refuse(400), Write(500)>>),
   sonarrDeleteAllReleaseProfiles |-> Clear(500)]

SonarrFolders ==
  [sonarrRootFolders        |-> Fetch(500),
   sonarrGetNaming          |-> Fetch(500),
   sonarrUpdateNaming       |-> Change(503)]

SonarrSearch ==
  [sonarrSearchSeries       |-> Fetch(503)]

SonarrTags ==
  [sonarrGetTags            |-> Fetch(503),
   sonarrUpdateTag          |-> Order(503),
   sonarrSetTag             |-> Order(503),
   sonarrUpdateSeries       |-> Change(503),
   sonarrSeasonPass         |-> Change(503)]

SonarrCustomFormats ==
  [sonarrAddCustomFormat        |-> Change(500),
   sonarrGetCustomFormats       |-> Fetch(500),
   sonarrUpdateCustomFormat     |-> Change(500),
   sonarrDeleteCustomFormat     |-> Order(500),
   sonarrDeleteAllCustomFormats |-> Clear(500)]

SonarrLists ==
  [sonarrGetImportLists          |-> Fetch(500),
   sonarrUpdateImportList        |-> Change(500),
   sonarrAddImportList           |-> Change(500),
   sonarrGetQualityDefinitions   |-> Fetch(500),
   sonarrUpdateQualityDefinition |-> Change(500)]

SonarrNotifications ==
  [sonarrGetNotifications   |-> Fetch(503),
   sonarrUpdateNotification |-> Change(503),
   sonarrAddNotification    |-> Change(503),
   sonarrDeleteQueue        |-> Order(500),
   sonarrDeleteEpisode      |-> Ok(<<Limit, Write(500)>>)]

(* sonarrHandlers *)
SonarrRoutes == UNION {OfApp(SonarrSeries), OfApp(SonarrCommands), OfApp(SonarrQualityProfiles),
                       OfApp(SonarrReleaseProfiles), OfApp(SonarrFolders), OfApp(SonarrSearch),
                       OfApp(SonarrTags), OfApp(SonarrCustomFormats), OfApp(SonarrLists),
                       OfApp(SonarrNotifications)}

-----------------------------------------------------------------------------
RadarrMovies ==
  [radarrAddMovie            |-> Route(201, <<Decode, Refuse(422), Look(503), Add(500)>>),
   radarrCheckMovie          |-> Ok(<<Look(503)>>),
   radarrGetMovie            |-> Fetch(503),
   radarrCommandMoviesSearch |-> Order(503),
   radarrGetAllMovies        |-> Fetch(503)]

RadarrQualityProfiles ==
  [radarrQualityProfile       |-> Fetch(500),
   radarrQualityProfiles      |-> Fetch(500),
   radarrAddQualityProfile    |-> Change(500),
   radarrUpdateQualityProfile |-> Ok(<<Decode, Refuse(422), Write(500)>>),
   radarrDeleteQualityProfile |-> Ok(<<Refuse(400), Write(500)>>)]

RadarrFolders ==
  [radarrDeleteAllQualityProfiles |-> Clear(500),
   radarrRootFolders              |-> Fetch(500),
   radarrGetNaming                |-> Fetch(500),
   radarrUpdateNaming             |-> Change(503)]

RadarrSearch ==
  [radarrSearchMovie         |-> Fetch(503)]

RadarrTags ==
  [radarrGetTags             |-> Fetch(503),
   radarrUpdateTag           |-> Order(503),
   radarrSetTag              |-> Order(503),
   radarrUpdateMovie         |-> Change(503)]

RadarrExclusions ==
  [radarrAddExclusions       |-> Change(500),
   radarrGetExclusions       |-> Fetch(500),
   radarrDelExclusions       |-> Order(500)]

RadarrCustomFormats ==
  [radarrAddCustomFormat        |-> Change(500),
   radarrGetCustomFormats       |-> Fetch(500),
   radarrUpdateCustomFormat     |-> Change(500),
   radarrDeleteCustomFormat     |-> Order(500),
   radarrDeleteAllCustomFormats |-> Clear(500)]

RadarrLists ==
  [radarrGetImportLists          |-> Fetch(500),
   radarrUpdateImportList        |-> Change(500),
   radarrAddImportList           |-> Change(500),
   radarrGetQualityDefinitions   |-> Fetch(500),
   radarrUpdateQualityDefinition |-> Change(500)]

RadarrNotifications ==
  [radarrGetNotifications    |-> Fetch(503),
   radarrUpdateNotification  |-> Change(503),
   radarrAddNotification     |-> Change(503)]

RadarrDeletions ==
  [radarrDeleteQueue         |-> Order(500),
   radarrDeleteMovie         |-> Ok(<<Limit, Write(500)>>),
   radarrDeleteContent       |-> Ok(<<Limit, Write(500)>>)]

(* radarrHandlers *)
RadarrRoutes == UNION {OfApp(RadarrMovies), OfApp(RadarrQualityProfiles), OfApp(RadarrFolders),
                       OfApp(RadarrSearch), OfApp(RadarrTags), OfApp(RadarrExclusions),
                       OfApp(RadarrCustomFormats), OfApp(RadarrLists), OfApp(RadarrNotifications),
                       OfApp(RadarrDeletions)}

-----------------------------------------------------------------------------
LidarrAlbums ==
  [lidarrAddAlbum            |-> Route(201, <<Decode, Refuse(422), Look(503), Add(500)>>),
   lidarrGetArtist           |-> Fetch(503),
   lidarrCheckAlbum          |-> Ok(<<Look(503)>>),
   lidarrGetAlbum            |-> Fetch(503),
   lidarrTriggerSearchAlbum  |-> Order(503)]

LidarrNaming ==
  [lidarrMetadata            |-> Fetch(500),
   lidarrGetNaming           |-> Fetch(500),
   lidarrUpdateNaming        |-> Change(503)]

LidarrCustomFormats ==
  [lidarrAddCustomFormat        |-> Change(500),
   lidarrGetCustomFormats       |-> Fetch(500),
   lidarrUpdateCustomFormat     |-> Change(500),
   lidarrDeleteCustomFormat     |-> Order(500),
   lidarrDeleteAllCustomFormats |-> Clear(500)]

LidarrQualityProfiles ==
  [lidarrUpdateQualityDefinition |-> Change(500),
   lidarrGetQualityDefinitions   |-> Fetch(500),
   lidarrQualityProfiles         |-> Fetch(500),
   lidarrGetQualityProfile       |-> Fetch(500),
   lidarrAddQualityProfile       |-> Change(500)]

LidarrFolders ==
  [lidarrUpdateQualityProfile    |-> Ok(<<Decode, Refuse(422), Write(500)>>),
   lidarrRootFolders             |-> Fetch(500),
   lidarrSearchAlbum             |-> Fetch(503)]

LidarrTags ==
  [lidarrGetTags             |-> Fetch(503),
   lidarrUpdateTag           |-> Order(503),
   lidarrSetTag              |-> Order(503),
   lidarrUpdateAlbum         |-> Change(503),
   lidarrUpdateArtist        |-> Change(503)]

LidarrNotifications ==
  [lidarrGetNotifications    |-> Fetch(503),
   lidarrDeleteQueue         |-> Order(500),
   lidarrUpdateNotification  |-> Change(503),
   lidarrAddNotification     |-> Change(503)]

(* lidarrHandlers *)
LidarrRoutes == UNION {OfApp(LidarrAlbums), OfApp(LidarrNaming), OfApp(LidarrCustomFormats),
                       OfApp(LidarrQualityProfiles), OfApp(LidarrFolders), OfApp(LidarrTags),
                       OfApp(LidarrNotifications)}

-----------------------------------------------------------------------------
ReadarrBooks ==
  [readarrAddBook            |-> Route(201, <<Decode, Refuse(422), Look(503), Add(500)>>),
   readarrGetAuthor          |-> Fetch(503),
   readarrCheckBook          |-> Ok(<<Look(503)>>),
   readarrGetBook            |-> Fetch(503),
   readarrTriggerSearchBook  |-> Order(503)]

ReadarrProfiles ==
  [readarrMetaProfiles         |-> Fetch(500),
   readarrQualityProfiles      |-> Fetch(500),
   readarrGetQualityProfile    |-> Fetch(500),
   readarrAddQualityProfile    |-> Change(500),
   readarrUpdateQualityProfile |-> Ok(<<Decode, Refuse(422), Write(500)>>)]

ReadarrFolders ==
  [readarrRootFolders        |-> Fetch(500),
   readarrSearchBook         |-> Fetch(503)]

ReadarrTags ==
  [readarrGetTags            |-> Fetch(503),
   readarrUpdateTag          |-> Order(503),
   readarrSetTag             |-> Order(503),
   readarrUpdateBook         |-> Change(503),
   readarrUpdateAuthor       |-> Change(503)]

ReadarrNotifications ==
  [readarrGetNotifications   |-> Fetch(503),
   readarrUpdateNotification |-> Change(503),
   readarrAddNotification    |-> Change(503),
   readarrDeleteQueue        |-> Order(500)]

(* readarrHandlers *)
ReadarrRoutes == UNION {OfApp(ReadarrBooks), OfApp(ReadarrProfiles), OfApp(ReadarrFolders),
                        OfApp(ReadarrTags), OfApp(ReadarrNotifications)}

-----------------------------------------------------------------------------
ProwlarrNotifications ==
  [prowlarrGetNotifications   |-> Fetch(503),
   prowlarrUpdateNotification |-> Change(503),
   prowlarrAddNotification    |-> Change(503)]

(* prowlarrHandlers *)
ProwlarrRoutes == OfApp(ProwlarrNotifications)

AppRoutes == UNION {SonarrRoutes, RadarrRoutes, LidarrRoutes, ReadarrRoutes, ProwlarrRoutes}
=============================================================================
