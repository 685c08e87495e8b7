-------------------------- MODULE MiniMessages --------------------------
(***************************************************************************)
(* The messages of project2 (miniDFS), as MetaMessages has those of        *)
(* project3.  A file is kept in segments here: a location and a range name *)
(* the segment, and the messages that delete and list files are missing.   *)
(***************************************************************************)
EXTENDS Protobuf

type == <<"FILELOCATION", "FILEREAD", "FILEWRITE", "DATASERVERREGISTER", "DATASERVERINFO">>

dataserverregister_ip == Required("ip", 1, "string")
dataserverregister_port == Required("port", 2, "int32")
dataserverregister == <<dataserverregister_ip, dataserverregister_port>>

dataserverinfo_id == Optional("id", 1, "int32")
dataserverinfo_fip == Optional("fip", 2, "string")
dataserverinfo_fport == Optional("fport", 3, "int32")
dataserverinfo_eip == Optional("eip", 4, "string")
dataserverinfo_eport == Optional("eport", 5, "int32")
dataserverinfo == <<dataserverinfo_id, dataserverinfo_fip, dataserverinfo_fport,
                    dataserverinfo_eip, dataserverinfo_eport>>

filerange_file == Required("file", 1, "string")
filerange_fileID == Required("fileID", 2, "int32")
filerange_segno == Required("segno", 3, "int32")
filerange_offset == Required("offset", 4, "int32")
filerange_length == Required("length", 5, "int32")
filerange_isMsgFromCL == Required("isMsgFromCL", 6, "bool")
filerange == <<filerange_file, filerange_fileID, filerange_segno, filerange_offset,
               filerange_length, filerange_isMsgFromCL>>

filelocation_segno == Required("segno", 1, "int32")
filelocation_file == Optional("file", 2, "string")
filelocation_ip == Optional("ip", 3, "string")
filelocation_port == Optional("port", 4, "int32")
filelocation_fd == Optional("fd", 5, "int32")
filelocation == <<filelocation_segno, filelocation_file, filelocation_ip,
                  filelocation_port, filelocation_fd>>

msgcontainer_msgtype == Enum("msgtype", 1, type)
msgcontainer_frange == SubMessage("frange", 2, filerange)
msgcontainer_floc == SubMessage("floc", 3, filelocation)
msgcontainer_dregister == SubMessage("dregister", 4, dataserverregister)
msgcontainer_dinfo == SubMessage("dinfo", 5, dataserverinfo)
msgcontainer == <<msgcontainer_msgtype, msgcontainer_frange, msgcontainer_floc,
                  msgcontainer_dregister, msgcontainer_dinfo>>
=========================================================================
