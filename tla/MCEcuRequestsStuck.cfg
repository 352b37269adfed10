\* The request TunerStudio polls with; the first byte of one is lost.
CONSTANTS
  Crc <- MCCrc
  Poll <- R
  Others = {}
  Noise = {}
  LineSize = 14
  MaxDeaf = 1
  MaxFaults = 1
SPECIFICATION Spec
PROPERTIES
  KeepsAnswering
