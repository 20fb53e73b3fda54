----------------------------- MODULE WireCodes -----------------------------
(***************************************************************************)
(* The codes that stand for names on the wire.  Each enumeration of the    *)
(* source has a code() and a try_from() written out separately; a *_code   *)
(* table below is the first (name to byte), a *_from table the second      *)
(* (byte to name, undefined for a byte that is refused).  And what the     *)
(* firmware says of itself: the capabilities it announces (contract.rs)    *)
(* and the links of its network profiles with the message classes each may *)
(* carry (network.rs).                                                     *)
(***************************************************************************)
EXTENDS Integers, Sequences

\* Consecutive codes from `first` for the listed names, in both directions.
Named(first, names) == [c \in first..(first + Len(names) - 1) |-> names[c - first + 1]]

Coded(first, names) ==
    [ n \in {names[i] : i \in DOMAIN names} |->
        first - 1 + CHOOSE i \in DOMAIN names : names[i] = n ]

\* Two tables side by side.
f ++ g == [x \in DOMAIN f \cup DOMAIN g |-> IF x \in DOMAIN f THEN f[x] ELSE g[x]]

----------------------------------------------------------------------------
(* Packets, in the groups their codes leave gaps between *)

session_code == Coded(1, <<
    "Ping", "Pong", "GetVersion", "VersionResponse", "GetCapabilities",
    "Capabilities", "GetLiveData", "LiveData" >>)
page_code == Coded(32, <<
    "ReadPage", "PageData", "WritePage", "BurnPage", "GetPageDirectory",
    "PageDirectory", "GetTableDirectory", "TableDirectory", "GetPinDirectory",
    "PinDirectory", "GetTableMetadata", "TableMetadata", "GetPageStatuses",
    "PageStatuses", "GetNetworkProfile", "NetworkProfile", "ReadTable",
    "TableData", "WriteTable", "WriteCell", "ReadCurve", "CurveData",
    "WriteCurve" >>)
service_code == Coded(64, <<
    "GetDtc", "DtcList", "ClearDtc", "GetSensorRaw", "SensorRaw",
    "RunOutputTest", "GetOutputTestDirectory", "OutputTestDirectory",
    "GetSensorRawDirectory", "SensorRawDirectory", "GetFreezeFrames",
    "FreezeFrames", "GetTriggerCapture", "TriggerCapture",
    "GetTriggerDecoderDirectory", "TriggerDecoderDirectory",
    "EnterBootloader", "FlashBlock", "FlashBlockAck", "FlashVerify",
    "FlashComplete", "GetUpdateStatus", "UpdateStatus", "ConfirmBootHealthy",
    "FlashResume" >>)
log_code == Coded(96, <<
    "LogStart", "LogStop", "LogStatus", "LogStatusResponse", "ReadLogBlock",
    "LogBlockData", "GetLogbookSummary", "LogbookSummaryResponse",
    "ResetLogbook", "SyncRtc", "GetPinAssignments", "PinAssignments",
    "PinAssign" >>)
trigger_code == Coded(112, <<
    "GetTriggerToothLog", "TriggerToothLog", "GetCanTemplateDirectory",
    "CanTemplateDirectory", "GetCanSignalDirectory", "CanSignalDirectory" >>)
reply_code == Coded(160, <<"Ack", "Nack">>)
error_code == Coded(255, <<"Error">>)

Cmd_code ==
    session_code ++ page_code ++ service_code ++ log_code ++ trigger_code ++ reply_code
      ++ error_code

session_from == Named(1, <<
    "Ping", "Pong", "GetVersion", "VersionResponse", "GetCapabilities",
    "Capabilities", "GetLiveData", "LiveData" >>)
page_from == Named(32, <<
    "ReadPage", "PageData", "WritePage", "BurnPage", "GetPageDirectory",
    "PageDirectory", "GetTableDirectory", "TableDirectory", "GetPinDirectory",
    "PinDirectory", "GetTableMetadata", "TableMetadata", "GetPageStatuses",
    "PageStatuses", "GetNetworkProfile", "NetworkProfile", "ReadTable",
    "TableData", "WriteTable", "WriteCell", "ReadCurve", "CurveData",
    "WriteCurve" >>)
service_from == Named(64, <<
    "GetDtc", "DtcList", "ClearDtc", "GetSensorRaw", "SensorRaw",
    "RunOutputTest", "GetOutputTestDirectory", "OutputTestDirectory",
    "GetSensorRawDirectory", "SensorRawDirectory", "GetFreezeFrames",
    "FreezeFrames", "GetTriggerCapture", "TriggerCapture",
    "GetTriggerDecoderDirectory", "TriggerDecoderDirectory",
    "EnterBootloader", "FlashBlock", "FlashBlockAck", "FlashVerify",
    "FlashComplete", "GetUpdateStatus", "UpdateStatus", "ConfirmBootHealthy",
    "FlashResume" >>)
log_from == Named(96, <<
    "LogStart", "LogStop", "LogStatus", "LogStatusResponse", "ReadLogBlock",
    "LogBlockData", "GetLogbookSummary", "LogbookSummaryResponse",
    "ResetLogbook", "SyncRtc", "GetPinAssignments", "PinAssignments",
    "PinAssign" >>)
trigger_from == Named(112, <<
    "GetTriggerToothLog", "TriggerToothLog", "GetCanTemplateDirectory",
    "CanTemplateDirectory", "GetCanSignalDirectory", "CanSignalDirectory" >>)
reply_from == Named(160, <<"Ack", "Nack">>)
error_from == Named(255, <<"Error">>)

Cmd_from ==
    session_from ++ page_from ++ service_from ++ log_from ++ trigger_from ++ reply_from
      ++ error_from

----------------------------------------------------------------------------
(* Payload fields *)

Capability_code ==
    Coded(1, <<"LiveData", "PageRead", "PageWrite", "PageBurn", "PageStatus",
               "TableRead", "TableWrite", "TableCellWrite", "TableMetadata", "Dtc",
               "SensorRaw", "OutputTest", "FirmwareFlash", "Page0Config",
               "PinDirectory", "PinAssignment", "NetworkProfile", "UsbSerial",
               "CanFd", "WifiBridge", "DisplayLink", "DashboardFrames", "Simulator">>)
    ++ Coded(24, <<"OutputTestDirectory", "SensorRawDirectory", "FreezeFrame",
                   "TriggerCapture", "TriggerDecoderDirectory", "TriggerToothLog",
                   "ExternalTcu", "TorqueIntervention", "WidebandController",
                   "DatalogStorage", "Logbook", "RtcClock", "LogBlockRead">>)

Capability_from ==
    Named(1, <<"LiveData", "PageRead", "PageWrite", "PageBurn", "PageStatus",
               "TableRead", "TableWrite", "TableCellWrite", "TableMetadata", "Dtc",
               "SensorRaw", "OutputTest", "FirmwareFlash", "Page0Config",
               "PinDirectory", "PinAssignment", "NetworkProfile", "UsbSerial",
               "CanFd", "WifiBridge", "DisplayLink", "DashboardFrames", "Simulator">>)
    ++ Named(24, <<"OutputTestDirectory", "SensorRawDirectory", "FreezeFrame",
                   "TriggerCapture", "TriggerDecoderDirectory", "TriggerToothLog",
                   "ExternalTcu", "TorqueIntervention", "WidebandController",
                   "DatalogStorage", "Logbook", "RtcClock", "LogBlockRead">>)

EcuFunction_code ==
    Coded(1, <<"CrankInput", "CamInput", "MapSensor", "TpsSensor", "CltSensor",
               "IatSensor">>)
    ++ Coded(16, <<"BoostControl", "IdleControl">>)
    ++ Coded(32, <<"Injector1", "Injector2">>) ++ Coded(48, <<"Ignition1", "Ignition2">>)

EcuFunction_from ==
    Named(1, <<"CrankInput", "CamInput", "MapSensor", "TpsSensor", "CltSensor",
               "IatSensor">>)
    ++ Named(16, <<"BoostControl", "IdleControl">>)
    ++ Named(32, <<"Injector1", "Injector2">>) ++ Named(48, <<"Ignition1", "Ignition2">>)

PinFunctionClass_code ==
    Coded(1, <<"AnalogInput", "DigitalInput", "CaptureInput", "PwmOutput", "Injector",
               "Ignition", "LowSideOutput", "HighSideOutput", "Can", "Uart", "Spi",
               "I2c", "Usb", "Debug">>)

PinFunctionClass_from ==
    Named(1, <<"AnalogInput", "DigitalInput", "CaptureInput", "PwmOutput", "Injector",
               "Ignition", "LowSideOutput", "HighSideOutput", "Can", "Uart", "Spi",
               "I2c", "Usb", "Debug">>)

ProductTrack_code == Coded(1, <<"HeadlessEcu", "DisplayIntegratedVcu">>)
ProductTrack_from == Named(1, <<"HeadlessEcu", "DisplayIntegratedVcu">>)

TransportLinkKind_code ==
    Coded(1, <<"UsbSerial", "CanFdPrimary", "CanFdSecondary", "WifiBridge",
               "Bluetooth", "LocalDisplayLink">>)

TransportLinkKind_from ==
    Named(1, <<"UsbSerial", "CanFdPrimary", "CanFdSecondary", "WifiBridge",
               "Bluetooth", "LocalDisplayLink">>)

MessageClass_code ==
    Coded(1, <<"Identity", "CalibrationPages", "CalibrationTables", "PageStatuses",
               "PinMetadata", "LiveData", "DashboardFrames", "Datalog",
               "Diagnostics", "FirmwareUpdate", "IoExpansion">>)

MessageClass_from ==
    Named(1, <<"Identity", "CalibrationPages", "CalibrationTables", "PageStatuses",
               "PinMetadata", "LiveData", "DashboardFrames", "Datalog",
               "Diagnostics", "FirmwareUpdate", "IoExpansion">>)

\* Output groups; an unknown key is encoded as 0, which no decoder accepts.
output_group_code == Coded(1, <<"injectors", "coils", "aux", "valves">>)
output_group_key == Named(1, <<"injectors", "coils", "aux", "valves">>)

----------------------------------------------------------------------------
(* Contract and network profiles *)

BASE_CAPABILITIES ==
    <<"LiveData", "PageRead", "PageWrite", "PageBurn", "PageStatus", "TableRead",
      "TableWrite", "TableCellWrite", "TableMetadata", "Dtc", "SensorRaw",
      "SensorRawDirectory", "FreezeFrame", "TriggerCapture",
      "TriggerDecoderDirectory", "TriggerToothLog", "OutputTest",
      "OutputTestDirectory", "FirmwareFlash", "Page0Config", "PinDirectory",
      "PinAssignment", "NetworkProfile", "UsbSerial", "CanFd", "WifiBridge",
      "ExternalTcu", "TorqueIntervention", "WidebandController", "DatalogStorage",
      "Logbook", "RtcClock", "LogBlockRead">>

base_capabilities(simulator) ==
    IF simulator THEN Append(BASE_CAPABILITIES, "Simulator") ELSE BASE_CAPABILITIES

USB_CLASSES ==
    <<"Identity", "CalibrationPages", "CalibrationTables", "PageStatuses",
      "PinMetadata", "LiveData", "Datalog", "Diagnostics", "FirmwareUpdate">>

CAN_CLASSES ==
    <<"Identity", "PageStatuses", "PinMetadata", "LiveData", "DashboardFrames",
      "Diagnostics", "IoExpansion">>

WIFI_CLASSES ==
    <<"Identity", "CalibrationPages", "CalibrationTables", "PageStatuses",
      "PinMetadata", "LiveData", "Datalog", "Diagnostics">>

DISPLAY_LINK_CLASSES ==
    <<"Identity", "PageStatuses", "PinMetadata", "LiveData", "DashboardFrames",
      "Datalog", "Diagnostics", "IoExpansion">>

LinkContract(kind, realtime_safe, firmware_update_allowed, classes) ==
    [ kind |-> kind, realtime_safe |-> realtime_safe,
      firmware_update_allowed |-> firmware_update_allowed,
      classes |-> [i \in DOMAIN classes |-> [class |-> classes[i]]] ]

HEADLESS_LINKS ==
    << LinkContract("UsbSerial", FALSE, TRUE, USB_CLASSES),
       LinkContract("CanFdPrimary", TRUE, FALSE, CAN_CLASSES),
       LinkContract("WifiBridge", FALSE, FALSE, WIFI_CLASSES) >>

DISPLAY_LINKS ==
    << LinkContract("UsbSerial", FALSE, TRUE, USB_CLASSES),
       LinkContract("CanFdPrimary", TRUE, FALSE, CAN_CLASSES),
       LinkContract("CanFdSecondary", TRUE, FALSE, CAN_CLASSES),
       LinkContract("WifiBridge", FALSE, FALSE, WIFI_CLASSES),
       LinkContract("LocalDisplayLink", TRUE, FALSE, DISPLAY_LINK_CLASSES) >>

HEADLESS_PROFILE ==
    [product_track |-> "HeadlessEcu", multi_master_can |-> FALSE, links |-> HEADLESS_LINKS]

DISPLAY_PROFILE ==
    [product_track |-> "DisplayIntegratedVcu", multi_master_can |-> TRUE,
     links |-> DISPLAY_LINKS]
============================================================================
