----------------------------- MODULE MCGpsLoop -----------------------------
(***************************************************************************)
(* Small instances of GpsLoop: limits of two and one retries, and of the   *)
(* Location fields the two that every fix writes, one that is optional and *)
(* one that only a 3D fix writes.                                          *)
(***************************************************************************)
EXTENDS GpsLoop

MCEncoded == <<"Direction", "Latitude", "Longitude", "AltitudeGeo">>
MCWritten2D == <<"Latitude", "Longitude", "Direction">>
MCWritten3D == <<"AltitudeGeo">>
MCOptional == {"Direction", "AltitudeGeo"}
=============================================================================
