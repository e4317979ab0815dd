---------------------------- MODULE QuickJsCalls ----------------------------
(***************************************************************************)
(* The N-API calls of the QuickJS provider                                 *)
(* (quickjs/src/js_native_api_quickjs.cc) as the steps of NapiProgram,     *)
(* family by family in source order.  Every engine call that reports an    *)
(* exception goes through return_pending_if_caught (Try, Make) or has its  *)
(* result ignored (Loose), in which case the exception stays in the        *)
(* runtime.                                                                *)
(***************************************************************************)
EXTENDS NapiProgram

QjsPrimitives ==
  Same({"napi_get_last_error_info", "napi_get_undefined", "napi_get_null", "napi_get_global",
        "napi_get_boolean", "napi_create_double", "napi_create_int32", "napi_create_int64",
        "napi_create_uint32", "napi_create_bigint_int64", "napi_create_bigint_uint64"},
       <<Args({Arg, Fails})>>)

QjsObjects ==
  Same({"napi_create_bigint_words", "napi_create_date", "napi_create_external",
        "napi_create_arraybuffer"},
       <<Args({Arg}), Make, Args({Fails})>>)
  @@ Same({"napi_create_object", "napi_create_array", "napi_get_value_external"},
          <<Args({Arg, Fails})>>)

QjsExternalBuffers ==
  Same({"napi_create_external_arraybuffer"}, <<Args({Arg, Fails}), Make, Args({Fails})>>)
  @@ Same({"napi_create_typedarray"}, <<Args({Arg}), Make, Args({Fails})>>)
  @@ Same({"napi_is_typedarray"}, <<Args({Arg})>>)

QjsArrayViews ==
  Same({"napi_get_typedarray_info", "napi_detach_arraybuffer", "napi_is_detached_arraybuffer"},
       <<Args({Arg, Fails, "napi_arraybuffer_expected"})>>)

QjsStrings ==
  Same({"napi_create_array_with_length", "napi_create_string_utf8", "napi_create_string_latin1"},
       <<Args({Arg}), Make, Args({Fails})>>)

\* The external strings are copies, made by the calls above.
QjsExternalStrings ==
  Same({"napi_create_string_utf16", "node_api_create_external_string_latin1",
        "node_api_create_external_string_utf16", "node_api_create_property_key_latin1"},
       <<Args({Arg}), Make>>)
  @@ Same({"node_api_create_property_key_utf8", "node_api_create_property_key_utf16"},
          <<Args({Arg, Fails})>>)

QjsSymbolsAndTypes ==
  Same({"napi_create_symbol", "node_api_symbol_for", "napi_typeof"},
       <<Args({Arg, "napi_string_expected", Fails})>>)

QjsNumbers ==
  Same({"napi_get_value_double", "napi_get_value_uint32", "napi_get_value_int32",
        "napi_get_value_int64"},
       <<Args({Arg, "napi_number_expected"}), Make>>)

\* A Date's number is what its valueOf method returns: JS, with no guard.
QjsBigintsAndDates ==
  Same({"napi_get_value_bigint_int64", "napi_get_value_bigint_uint64",
        "napi_get_value_bigint_words", "napi_is_date"},
       <<Args({Arg, "napi_bigint_expected"})>>)
  @@ Same({"napi_get_date_value"}, <<Args({Arg, "napi_date_expected"}), Try>>)

QjsSharedBuffers ==
  Same({"napi_is_arraybuffer", "napi_get_arraybuffer_info", "node_api_is_sharedarraybuffer"},
       <<Args({Arg})>>)
  @@ Same({"node_api_create_sharedarraybuffer"}, <<Args({Arg, Fails}), Make>>)

\* create_error_object makes the error (Try: it may read
\* Error.prepareStackTrace), then sets message and code and ignores failures.
ErrorMade == <<Guard, Args({Arg}), Try, Loose>>

\* An array's length is its own data property: reading it runs no JS.
QjsDataViews ==
  Each({"napi_create_dataview"},
       {<<Args({Arg}), Make, Args({Fails}), Make>>,
        <<Args({Arg})>> \o ErrorMade \o <<Raise("napi_pending_exception")>>})
  @@ Same({"napi_is_dataview", "napi_get_dataview_info", "napi_is_array"}, <<Args({Arg, Fails})>>)
  @@ Same({"napi_get_array_length"}, <<Args({Arg, "napi_array_expected"}), Make>>)

QjsElements ==
  Same({"napi_get_element", "napi_set_element", "napi_has_element", "napi_delete_element"},
       <<Guard, Args({Arg, Object, Fails}), Try, Args({Fails})>>)
  @@ Same({"napi_instanceof"}, <<Guard, Args({Arg, "napi_function_expected"}), Try>>)

QjsCallbackInfo ==
  Same({"napi_get_cb_info", "napi_get_new_target"}, <<Args({Arg})>>)
  @@ Same({"napi_open_handle_scope", "napi_close_handle_scope", "napi_open_escapable_handle_scope",
           "napi_close_escapable_handle_scope", "napi_escape_handle"},
          <<Args({Arg, Fails, "napi_escape_called_twice"})>>)

\* The properties are defined on objects the call just made: no JS runs.
QjsClasses ==
  Same({"napi_create_function"}, <<Args({Arg}), Make, Args({Fails})>>)
  @@ Same({"napi_define_class"}, <<Args({Arg}), Make, Args({"napi_name_expected", Fails})>>)

\* The termination is looked at after the arguments.
QjsInvocations ==
  Same({"napi_new_instance", "napi_call_function"},
       <<Args({Arg, "napi_function_expected"}), Guard, Try>>)

QjsDefineProperties ==
  Same({"napi_define_properties"}, <<Guard, Args({Arg, Object}), Make, Try>>)

QjsPromises ==
  Same({"napi_create_promise"}, <<Args({Arg}), Make, Args({Fails})>>)
  @@ Same({"napi_resolve_deferred", "napi_reject_deferred"}, <<Guard, Args({Arg}), Try>>)
  @@ Same({"napi_is_promise"}, <<Args({Arg})>>)
  @@ Same({"napi_has_named_property"}, <<Guard, Args({Arg, Object, Fails}), Try>>)

QjsProperties ==
  Same({"napi_set_property", "napi_get_property", "napi_has_property", "napi_delete_property"},
       <<Guard, Args({Arg, Object, "napi_name_expected"}), Make, Try, Args({Fails})>>)

\* Listing the names of a prototype that is a proxy may fail: the failure is
\* ignored and its exception stays in the runtime.
QjsPropertyNames ==
  Same({"napi_has_own_property", "napi_set_named_property", "napi_get_named_property"},
       <<Guard, Args({Arg, Object, "napi_name_expected"}), Make, Try, Args({Fails})>>)
  @@ Same({"napi_get_property_names", "napi_get_all_property_names"},
          <<Guard, Args({Arg, Object}), Try, Loose, Args({Fails})>>)

\* A proxy's getPrototypeOf and setPrototypeOf traps: JS, with no guard.
QjsPrototypes ==
  Same({"napi_get_prototype", "node_api_set_prototype"}, <<Args({Arg, Object}), Try, Args({Fails})>>)

QjsStringValues ==
  Same({"napi_get_value_bool", "napi_get_value_string_utf8", "napi_get_value_string_latin1",
        "napi_get_value_string_utf16"},
       <<Args({Arg, "napi_boolean_expected", "napi_string_expected"}), Make, Args({Arg})>>)

QjsCoercions ==
  Same({"napi_coerce_to_bool"}, <<Args({Arg}), Make, Args({Fails})>>)
  @@ Same({"napi_strict_equals"}, <<Args({Arg})>>)
  @@ Same({"napi_coerce_to_number", "napi_coerce_to_object", "napi_coerce_to_string"},
          <<Guard, Args({Arg}), Try, Args({Fails})>>)

QjsReferences ==
  Same({"napi_create_reference", "napi_delete_reference", "napi_reference_ref",
        "napi_reference_unref", "napi_get_reference_value"},
       <<Args({Arg, Fails})>>)

\* A wrap is a property of the object, so a proxy's traps see it looked up
\* (get_wrap_record swallows what they throw), made and removed: JS, with no
\* guard.
QjsWraps ==
  Same({"napi_wrap"}, <<Args({Arg, Object}), Quiet, Args({Arg, Fails}), Make, Try>>)
  @@ Same({"napi_unwrap"}, <<Args({Arg}), Quiet, Args({Arg})>>)
  @@ Same({"napi_remove_wrap"}, <<Args({Arg, Object}), Quiet, Args({Arg}), Try>>)

\* napi_throw_error returns napi_ok; its siblings napi_pending_exception.
QjsThrow ==
  Same({"napi_throw_error"}, ErrorMade \o <<Raise("napi_ok")>>)
  @@ Same({"napi_throw"}, <<Guard, Args({Arg}), Raise("napi_pending_exception")>>)
  @@ Same({"napi_is_error"}, <<Args({Arg}), Loose>>)
  @@ Same({"napi_throw_type_error", "napi_throw_range_error", "node_api_throw_syntax_error"},
          ErrorMade \o <<Raise("napi_pending_exception")>>)
  @@ Same({"napi_fatal_exception"}, <<Args({Arg}), Raise("napi_ok")>>)

\* create_error_common: the termination is looked at after the arguments.
QjsCreateErrors ==
  Same({"napi_create_error", "napi_create_type_error", "napi_create_range_error",
        "node_api_create_syntax_error"},
       <<Args({Arg}), Guard, Args({"napi_string_expected"}), Try, Loose, Args({Fails})>>)

QjsPendingException ==
  Same({"napi_is_exception_pending"}, <<Args({Arg})>>)
  @@ Same({"napi_get_and_clear_last_exception"},
          <<Args({Arg}), NeedPending, Clear, Args({Fails})>>)
  @@ Same({"napi_set_instance_data", "napi_get_instance_data"}, <<Args({Arg})>>)

QjsScripts ==
  Same({"napi_run_script"},
       <<Args({Arg, "napi_string_expected"}), Guard, Make, Try, Args({Fails})>>)

QjsBuffers ==
  Same({"napi_add_env_cleanup_hook", "napi_remove_env_cleanup_hook", "napi_is_buffer",
        "napi_get_buffer_info"},
       <<Args({Arg, Fails})>>)
  @@ Same({"napi_create_buffer", "napi_create_buffer_copy", "napi_create_external_buffer",
           "node_api_create_buffer_from_arraybuffer"},
          <<Args({Arg}), Guard, Make, Args({Fails})>>)

QjsIntegrity ==
  Same({"napi_adjust_external_memory", "napi_get_version"}, <<Args({Arg})>>)
  @@ Same({"napi_add_finalizer"}, <<Args({Arg, Object, Fails}), Make, Try>>)
  @@ Same({"napi_object_freeze", "napi_object_seal"}, <<Guard, Args({Arg, Object}), Try>>)

\* The tag is a property too, defined and read with the failures ignored.
QjsTypeTags ==
  Same({"napi_type_tag_object", "napi_check_object_type_tag"}, <<Args({Arg}), Loose>>)
  @@ Same({"node_api_create_object_with_properties"},
          <<Args({Arg, Object}), Make, Try, Args({Fails})>>)

QjsTable ==
  QjsPrimitives @@ QjsObjects @@ QjsExternalBuffers @@ QjsArrayViews @@ QjsStrings
  @@ QjsExternalStrings @@ QjsSymbolsAndTypes @@ QjsNumbers @@ QjsBigintsAndDates
  @@ QjsSharedBuffers @@ QjsDataViews @@ QjsElements @@ QjsCallbackInfo @@ QjsClasses
  @@ QjsInvocations @@ QjsDefineProperties @@ QjsPromises @@ QjsProperties @@ QjsPropertyNames
  @@ QjsPrototypes @@ QjsStringValues @@ QjsCoercions @@ QjsReferences @@ QjsWraps @@ QjsThrow
  @@ QjsCreateErrors @@ QjsPendingException @@ QjsScripts @@ QjsBuffers @@ QjsIntegrity
  @@ QjsTypeTags

\* The paths a QuickJS call can take.
QjsPaths == PathsOf(QjsTable)
=============================================================================
