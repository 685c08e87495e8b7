-------------------------- MODULE MetaMessages --------------------------
(***************************************************************************)
(* The messages of project3 (metadata storage): message.pb.h declares a    *)
(* class per message and, for every field, the accessors has_x, clear_x,   *)
(* x, set_x and for a sub-message mutable_x, release_x and                 *)
(* set_allocated_x.  A definition per field here, named class_field, and   *)
(* one per class; what the accessors do is in Protobuf.                    *)
(***************************************************************************)
EXTENDS Protobuf

type == <<"FILELOCATION", "DELETEFILE", "FILEWRITE", "FILEREAD", "ALLINFORMATION",
          "DATASERVERREGISTER", "DATASERVERINFO">>

dataserverregister_ip == Required("ip", 1, "string")
dataserverregister_port == Required("port", 2, "int32")
dataserverregister == <<dataserverregister_ip, dataserverregister_port>>

dataserverinfo_id == Optional("id", 1, "int32")
dataserverinfo_fip == Optional("fip", 2, "string")
dataserverinfo_fport == Optional("fport", 3, "int32")
dataserverinfo_eip == Optional("eip", 4, "string")
dataserverinfo_eport == Optional("eport", 5, "int32")
dataserverinfo == <<dataserverinfo_id, dataserverinfo_fip, dataserverinfo_fport,
                    dataserverinfo_eip, dataserverinfo_eport>>

filerange_file == Required("file", 1, "string")
filerange_fileID == Required("fileID", 2, "int32")
filerange_length == Required("length", 3, "int32")
filerange_isMsgFromCL == Required("isMsgFromCL", 4, "bool")
filerange == <<filerange_file, filerange_fileID, filerange_length, filerange_isMsgFromCL>>

filelocation_file == Optional("file", 1, "string")
filelocation_ip == Optional("ip", 2, "string")
filelocation_port == Optional("port", 3, "int32")
filelocation_fd == Optional("fd", 4, "int32")
filelocation_filelen == Optional("filelen", 5, "int32")
filelocation == <<filelocation_file, filelocation_ip, filelocation_port,
                  filelocation_fd, filelocation_filelen>>

filedelete_file == Optional("file", 1, "string")
filedelete == <<filedelete_file>>

clusterdata_clusternum == Optional("clusternum", 1, "int32")
clusterdata == <<clusterdata_clusternum>>

msgcontainer_msgtype == Enum("msgtype", 1, type)
msgcontainer_frange == SubMessage("frange", 2, filerange)
msgcontainer_floc == SubMessage("floc", 3, filelocation)
msgcontainer_filedel == SubMessage("filedel", 4, filedelete)
msgcontainer_acluster == SubMessage("acluster", 5, clusterdata)
msgcontainer_dregister == SubMessage("dregister", 6, dataserverregister)
msgcontainer_dinfo == SubMessage("dinfo", 7, dataserverinfo)
msgcontainer == <<msgcontainer_msgtype, msgcontainer_frange, msgcontainer_floc,
                  msgcontainer_filedel, msgcontainer_acluster, msgcontainer_dregister,
                  msgcontainer_dinfo>>
=========================================================================
