CONSTANTS
  shot = shot
  frame = frame
  text = text
  caption = caption
  Targets = {shot, frame, caption}
  KindOf <- KindsOf
  Subject <- SubjectsOf
  Closed = Closed
  K = 1
  MaxVectors = 3
  MaxBatch = 2
  MaxFaults = 1
SPECIFICATION Spec
INVARIANTS FilesMatchTheTable HitsAreRight
