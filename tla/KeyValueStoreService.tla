------------------------ MODULE KeyValueStoreService ------------------------
(***************************************************************************)
(* The classes generated from KeyValueStore.thrift.  For every method the  *)
(* server reads _args and writes _result, the client writes _pargs and     *)
(* reads _presult: four classes that have to agree.                        *)
(***************************************************************************)
EXTENDS ThriftStruct

\* The values an enum has on the wire; nothing checks what is read.
KVStoreStatus == [OK |-> 1, EKEYNOTFOUND |-> 2, EITEMNOTFOUND |-> 3, EPUTFAILED |-> 4,
                  EITEMEXISTS |-> 5, INTERNAL_FAILURE |-> 6, NOT_IMPLEMENTED |-> 7]

GetResponse     == Response(<<"T_I32", "T_STRING">>, <<>>)
GetListResponse == Response(<<"T_I32", "T_LIST">>, <<>>)

KeyValueStore_Get_args    == <<"T_STRING">>
KeyValueStore_Get_pargs   == <<"T_STRING">>
KeyValueStore_Get_result  == Success("T_STRUCT")
KeyValueStore_Get_presult == Success("T_STRUCT")
call_Get == Method("Get", KeyValueStore_Get_pargs, KeyValueStore_Get_presult, GetResponse)
process_Get == Method("Get", KeyValueStore_Get_args, KeyValueStore_Get_result, GetResponse)

KeyValueStore_GetList_args    == <<"T_STRING">>
KeyValueStore_GetList_pargs   == <<"T_STRING">>
KeyValueStore_GetList_result  == Success("T_STRUCT")
KeyValueStore_GetList_presult == Success("T_STRUCT")
call_GetList ==
    Method("GetList", KeyValueStore_GetList_pargs,
           KeyValueStore_GetList_presult, GetListResponse)
process_GetList ==
    Method("GetList", KeyValueStore_GetList_args,
           KeyValueStore_GetList_result, GetListResponse)

KeyValueStore_Put_args    == <<"T_STRING", "T_STRING", "T_STRING">>
KeyValueStore_Put_pargs   == <<"T_STRING", "T_STRING", "T_STRING">>
KeyValueStore_Put_result  == Success("T_I32")
KeyValueStore_Put_presult == Success("T_I32")
call_Put == Method("Put", KeyValueStore_Put_pargs, KeyValueStore_Put_presult, Bare)
process_Put == Method("Put", KeyValueStore_Put_args, KeyValueStore_Put_result, Bare)

KeyValueStore_AddToList_args    == <<"T_STRING", "T_STRING", "T_STRING">>
KeyValueStore_AddToList_pargs   == <<"T_STRING", "T_STRING", "T_STRING">>
KeyValueStore_AddToList_result  == Success("T_I32")
KeyValueStore_AddToList_presult == Success("T_I32")
call_AddToList ==
    Method("AddToList", KeyValueStore_AddToList_pargs,
           KeyValueStore_AddToList_presult, Bare)
process_AddToList ==
    Method("AddToList", KeyValueStore_AddToList_args, KeyValueStore_AddToList_result, Bare)

KeyValueStore_RemoveFromList_args    == <<"T_STRING", "T_STRING", "T_STRING">>
KeyValueStore_RemoveFromList_pargs   == <<"T_STRING", "T_STRING", "T_STRING">>
KeyValueStore_RemoveFromList_result  == Success("T_I32")
KeyValueStore_RemoveFromList_presult == Success("T_I32")
call_RemoveFromList ==
    Method("RemoveFromList", KeyValueStore_RemoveFromList_pargs,
           KeyValueStore_RemoveFromList_presult, Bare)
process_RemoveFromList ==
    Method("RemoveFromList", KeyValueStore_RemoveFromList_args,
           KeyValueStore_RemoveFromList_result, Bare)

\* The client's stubs, send_ and recv_ of each method.
KeyValueStoreClient ==
    ByName({call_Get, call_GetList, call_Put, call_AddToList,
            call_RemoveFromList})

\* The processor's table from names to process_ functions.
KeyValueStoreProcessor ==
    ByName({process_Get, process_GetList, process_Put, process_AddToList,
            process_RemoveFromList})
=============================================================================
