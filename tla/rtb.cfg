SPECIFICATION Spec
CONSTANTS
  Ics <- MCAll
  Projects <- MCProjects
  Confs <- MCConfs
  Sizes <- MCSizes
  Speed = 115200
INVARIANTS OwnEntry ForeignRefused Accepted RightRom
