---------------------------- MODULE MessageTable ----------------------------
(****************************************************************************)
(* pkg/messages/reason_code.go and messages_en.go: the reason codes and the *)
(* table that gives each its gRPC code.  Descriptions and actions are left  *)
(* out.  A table is a set of entries [code, type].                          *)
(****************************************************************************)
(* The constants of reason_code.go. *)
ReasonCodes ==
    {"MethodUnimplemented", "MethodUnsupported", "MissingVolumeName",
     "MissingSnapshotName", "MissingSourceVolumeID",
     "VolumeAlreadyExists", "SnapshotAlreadyExists", "EmptyVolumeID",
     "EmptySnapshotID", "UnsupportedVolumeContentSource",
     "EmptyVolumePath", "EmptyNodeID", "EndpointNotReachable", "Timeout",
     "VolumeInvalidArguments", "VolumeCreationFailed",
     "NoVolumeCapabilities", "VolumeCapabilitiesNotSupported",
     "InvalidParameters", "InternalError", "ObjectNotFound",
     "ProfileNotAllowlisted", "FailedPrecondition",
     "NoStagingTargetPath", "NoTargetPath", "MountPointValidateError",
     "UnmountFailed", "MountFailed", "EmptyDevicePath",
     "DevicePathFindFailed", "DevicePathNotFound",
     "TargetPathCheckFailed", "TargetPathCreateFailed",
     "VolumeMountCheckFailed", "FormatAndMountFailed",
     "NodeMetadataInitFailed", "DevicePathNotExists",
     "BlockDeviceCheckFailed", "GetDeviceInfoFailed", "GetFSInfoFailed",
     "DriverNotConfigured", "RemoveMountTargetFailed",
     "CreateMountTargetFailed", "MountingTargetFailed",
     "UnresponsiveMountHelperContainerUtility",
     "MetadataServiceNotEnabled", "ListVolumesFailed",
     "ListSnapshotsFailed", "StartVolumeIDNotFound",
     "StartSnapshotIDNotFound", "FileSystemResizeFailed",
     "VolumePathNotMounted", "SubnetIDListNotFound", "SubnetFindFailed"}

Entries(type, codes) == {[code |-> c, type |-> type] : c \in codes}

(* messagesEn, in the order of messages_en.go. *)
FirstMessages ==
    Entries("Unimplemented",
          {"MethodUnimplemented", "MethodUnsupported"})
    \cup Entries("InvalidArgument",
          {"MissingVolumeName", "MissingSnapshotName",
           "MissingSourceVolumeID", "UnsupportedVolumeContentSource",
           "NoVolumeCapabilities", "VolumeCapabilitiesNotSupported",
           "InvalidParameters", "VolumeInvalidArguments", "EmptyVolumeID",
           "EmptySnapshotID", "EmptyNodeID"})
    \cup Entries("NotFound",
          {"ObjectNotFound"})
    \cup Entries("Internal",
          {"InternalError", "VolumeCreationFailed"})
    \cup Entries("AlreadyExists",
          {"VolumeAlreadyExists", "SnapshotAlreadyExists"})
    \cup Entries("Unavailable",
          {"EndpointNotReachable"})
    \cup Entries("DeadlineExceeded",
          {"Timeout"})

SecondMessages ==
    Entries("FailedPrecondition",
          {"ProfileNotAllowlisted", "FailedPrecondition",
           "MountPointValidateError"})
    \cup Entries("InvalidArgument",
          {"NoStagingTargetPath", "NoTargetPath", "EmptyDevicePath",
           "EmptyVolumePath"})
    \cup Entries("Internal",
          {"UnmountFailed", "MountFailed", "DevicePathFindFailed",
           "DevicePathNotFound", "TargetPathCheckFailed",
           "TargetPathCreateFailed", "VolumeMountCheckFailed",
           "FormatAndMountFailed", "BlockDeviceCheckFailed"})
    \cup Entries("NotFound",
          {"NodeMetadataInitFailed", "DevicePathNotExists"})

(* Mutant: the entries added last were forgotten. *)
ThirdWithoutSubnets ==
    Entries("Internal",
          {"GetDeviceInfoFailed", "GetFSInfoFailed",
           "RemoveMountTargetFailed", "CreateMountTargetFailed",
           "MountingTargetFailed", "MetadataServiceNotEnabled",
           "ListVolumesFailed", "ListSnapshotsFailed",
           "FileSystemResizeFailed"})
    \cup Entries("Unavailable",
          {"DriverNotConfigured", "UnresponsiveMountHelperContainerUtility"})
    \cup Entries("Aborted",
          {"StartVolumeIDNotFound", "StartSnapshotIDNotFound"})
    \cup Entries("FailedPrecondition", {"VolumePathNotMounted"})

ThirdMessages ==
    Entries("Internal",
          {"GetDeviceInfoFailed", "GetFSInfoFailed",
           "RemoveMountTargetFailed", "CreateMountTargetFailed",
           "MountingTargetFailed", "MetadataServiceNotEnabled",
           "ListVolumesFailed", "ListSnapshotsFailed",
           "FileSystemResizeFailed"})
    \cup Entries("Unavailable",
          {"DriverNotConfigured", "UnresponsiveMountHelperContainerUtility"})
    \cup Entries("Aborted",
          {"StartVolumeIDNotFound", "StartSnapshotIDNotFound"})
    \cup Entries("FailedPrecondition",
          {"VolumePathNotMounted", "SubnetIDListNotFound", "SubnetFindFailed"})

messagesEn == FirstMessages \cup SecondMessages \cup ThirdMessages
=============================================================================
