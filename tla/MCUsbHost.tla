----------------------------- MODULE MCUsbHost -----------------------------
(***************************************************************************)
(* Devices to plug in, by the descriptors of their configurations.         *)
(***************************************************************************)
EXTENDS UsbHost

Conf(value) == <<3, CONFIGURATION, value>>
Interface(class) == <<3, INTERFACE, class>>
Endpoint(address, attributes) == <<4, ENDPOINT, address, attributes>>
ClassSpecific == <<5, 36, 4, 5, 2>>
AUDIO == 2
VENDOR == 3

MCDevices == {"keyboard", "second", "launchpad", "mouse"}

MCConfigurations ==
  [d \in MCDevices |->
     CASE d = "keyboard" ->
            << <<Conf(1), Interface(AUDIO), Endpoint(DirIn + 1, INTERRUPT),
                 Interface(MIDI), ClassSpecific, Endpoint(2, BULK),
                 Endpoint(DirIn + 3, BULK), ClassSpecific>> >>
       [] d = "second" ->
            << <<Conf(1), Interface(VENDOR), Endpoint(DirIn + 4, BULK)>>,
               <<Conf(2), Interface(MIDI), Endpoint(DirIn + 5, BULK),
                 Interface(VENDOR), Endpoint(DirIn + 6, BULK)>> >>
       [] d = "launchpad" ->
            << <<Conf(3), Interface(VENDOR), Endpoint(DirIn + 1, INTERRUPT),
                 Endpoint(2, INTERRUPT)>> >>
       [] d = "mouse" ->
            << <<Conf(1), Interface(VENDOR), Endpoint(DirIn + 7, INTERRUPT)>> >>]

MCNovation == {"launchpad"}
=============================================================================
