-------------------------- MODULE TribblerService --------------------------
(***************************************************************************)
(* The classes generated from Tribbler.thrift, by the same pattern as      *)
(* those of KeyValueStoreService.                                          *)
(***************************************************************************)
EXTENDS ThriftStruct

TribbleStatus == [OK |-> 1, EEXISTS |-> 2, INVALID_USER |-> 3, INVALID_SUBSCRIBETO |-> 4,
                  NOT_IMPLEMENTED |-> 5, STORE_FAILED |-> 6, INTERNAL_FAILURE |-> 7]

\* userid, posted (a list of integers), contents.
Tribble == <<"T_STRING", "T_LIST", "T_STRING">>

TribbleResponse      == Response(<<"T_LIST", "T_I32">>, Tribble)
SubscriptionResponse == Response(<<"T_LIST", "T_I32">>, <<>>)

Tribbler_CreateUser_args    == <<"T_STRING">>
Tribbler_CreateUser_pargs   == <<"T_STRING">>
Tribbler_CreateUser_result  == Success("T_I32")
Tribbler_CreateUser_presult == Success("T_I32")
call_CreateUser ==
    Method("CreateUser", Tribbler_CreateUser_pargs, Tribbler_CreateUser_presult, Bare)
process_CreateUser ==
    Method("CreateUser", Tribbler_CreateUser_args, Tribbler_CreateUser_result, Bare)

Tribbler_AddSubscription_args    == <<"T_STRING", "T_STRING">>
Tribbler_AddSubscription_pargs   == <<"T_STRING", "T_STRING">>
Tribbler_AddSubscription_result  == Success("T_I32")
Tribbler_AddSubscription_presult == Success("T_I32")
call_AddSubscription ==
    Method("AddSubscription", Tribbler_AddSubscription_pargs,
           Tribbler_AddSubscription_presult, Bare)
process_AddSubscription ==
    Method("AddSubscription", Tribbler_AddSubscription_args,
           Tribbler_AddSubscription_result, Bare)

Tribbler_RemoveSubscription_args    == <<"T_STRING", "T_STRING">>
Tribbler_RemoveSubscription_pargs   == <<"T_STRING", "T_STRING">>
Tribbler_RemoveSubscription_result  == Success("T_I32")
Tribbler_RemoveSubscription_presult == Success("T_I32")
call_RemoveSubscription ==
    Method("RemoveSubscription", Tribbler_RemoveSubscription_pargs,
           Tribbler_RemoveSubscription_presult, Bare)
process_RemoveSubscription ==
    Method("RemoveSubscription", Tribbler_RemoveSubscription_args,
           Tribbler_RemoveSubscription_result, Bare)

Tribbler_PostTribble_args    == <<"T_STRING", "T_STRING">>
Tribbler_PostTribble_pargs   == <<"T_STRING", "T_STRING">>
Tribbler_PostTribble_result  == Success("T_I32")
Tribbler_PostTribble_presult == Success("T_I32")
call_PostTribble ==
    Method("PostTribble", Tribbler_PostTribble_pargs, Tribbler_PostTribble_presult, Bare)
process_PostTribble ==
    Method("PostTribble", Tribbler_PostTribble_args, Tribbler_PostTribble_result, Bare)

Tribbler_GetTribbles_args    == <<"T_STRING">>
Tribbler_GetTribbles_pargs   == <<"T_STRING">>
Tribbler_GetTribbles_result  == Success("T_STRUCT")
Tribbler_GetTribbles_presult == Success("T_STRUCT")
call_GetTribbles ==
    Method("GetTribbles", Tribbler_GetTribbles_pargs,
           Tribbler_GetTribbles_presult, TribbleResponse)
process_GetTribbles ==
    Method("GetTribbles", Tribbler_GetTribbles_args,
           Tribbler_GetTribbles_result, TribbleResponse)

Tribbler_GetTribblesBySubscription_args    == <<"T_STRING">>
Tribbler_GetTribblesBySubscription_pargs   == <<"T_STRING">>
Tribbler_GetTribblesBySubscription_result  == Success("T_STRUCT")
Tribbler_GetTribblesBySubscription_presult == Success("T_STRUCT")
call_GetTribblesBySubscription ==
    Method("GetTribblesBySubscription", Tribbler_GetTribblesBySubscription_pargs,
           Tribbler_GetTribblesBySubscription_presult, TribbleResponse)
process_GetTribblesBySubscription ==
    Method("GetTribblesBySubscription", Tribbler_GetTribblesBySubscription_args,
           Tribbler_GetTribblesBySubscription_result, TribbleResponse)

Tribbler_GetSubscriptions_args    == <<"T_STRING">>
Tribbler_GetSubscriptions_pargs   == <<"T_STRING">>
Tribbler_GetSubscriptions_result  == Success("T_STRUCT")
Tribbler_GetSubscriptions_presult == Success("T_STRUCT")
call_GetSubscriptions ==
    Method("GetSubscriptions", Tribbler_GetSubscriptions_pargs,
           Tribbler_GetSubscriptions_presult, SubscriptionResponse)
process_GetSubscriptions ==
    Method("GetSubscriptions", Tribbler_GetSubscriptions_args,
           Tribbler_GetSubscriptions_result, SubscriptionResponse)

\* The client's stubs, send_ and recv_ of each method.
TribblerClient ==
    ByName({call_CreateUser, call_AddSubscription, call_RemoveSubscription,
            call_PostTribble, call_GetTribbles,
            call_GetTribblesBySubscription, call_GetSubscriptions})

\* The processor's table from names to process_ functions.
TribblerProcessor ==
    ByName({process_CreateUser, process_AddSubscription,
            process_RemoveSubscription, process_PostTribble,
            process_GetTribbles, process_GetTribblesBySubscription,
            process_GetSubscriptions})
=============================================================================
