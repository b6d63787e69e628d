SPECIFICATION TunnelSpec
CONSTANTS
  Names = {wg0}
  NoName = NoName
  Devices = {utun4, utun5}
  NoDevice = NoDevice
  Actors = {supervisor, helper}
  MaxFaults = 0
INVARIANT OneDaemon
