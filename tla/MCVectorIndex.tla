---------------------------- MODULE MCVectorIndex ----------------------------
(***************************************************************************)
(* Instances of VectorIndex for TLC.                                       *)
(***************************************************************************)
EXTENDS VectorIndex

CONSTANTS shot, frame, text, caption

KindsOf == [t \in Targets |->
  IF t = shot THEN "segment" ELSE IF t = frame THEN "frame"
  ELSE IF t = text THEN "ocr" ELSE "description"]
SubjectsOf == [t \in Targets |->
  IF t = caption THEN shot ELSE IF t = text THEN frame ELSE t]
=============================================================================
